---- MODULE Spec2Model ----
(***************************************************************************)
(* Dispatch core of the delivery platform: order batching (batching.py),   *)
(* heuristic routing (routing.py), the VRP solver with its greedy fallback *)
(* (solver.py) and the travel-time provider chain with its cache           *)
(* (travel_time.py).                                                       *)
(*                                                                         *)
(* Coordinates are integer kilometre offsets <<lat, lng>> from the         *)
(* Highway 7 reference point, and the great-circle distance is modelled by *)
(* the Manhattan metric on those offsets.  A centroid is the exact         *)
(* fraction <<sum of lats, sum of lngs, number of points>>.  Times are     *)
(* minutes.                                                                *)
(***************************************************************************)
EXTENDS Integers, Sequences, FiniteSets, TLC

(* ------------------------------ bounds --------------------------------- *)
MaxOrders == 5          \* orders submitted to the batch endpoint
MaxBatchSize == 4       \* largest configured max_batch_size_orders
MaxTicks == 1           \* clock ticks during a session
MaxLabels == 2          \* cluster labels the k-means fit may use
MaxRouteOrders == 2     \* orders of a batch submitted to the route endpoint
MaxTravelTicks == 2     \* clock ticks during a travel-time session
MaxVehicles == 2         \* vehicles given to solve_vrp
MaxStops == 4            \* stops given to solve_vrp
MaxCalls == 2
MaxMergeBatches == 3
MaxHandlers == 2
MaxLeg == 2
MaxEscrows == 1           \* get_travel_time calls during a travel-time session

(* ------------------------- program constants --------------------------- *)
batch_window_minutes == 15
default_max_highway_deviation_km == 5
merge_threshold_km == 10

NoTime == 0 - 1          \* current_time=None
Raised == "raised"
Returned == "returned"
NotRun == "not_run"

Abs(x) == IF x < 0 THEN 0 - x ELSE x
Min2(a, b) == IF a <= b THEN a ELSE b
Max2(a, b) == IF a >= b THEN a ELSE b
RECURSIVE SumSeq(_)
SumSeq(s) == IF s = <<>> THEN 0 ELSE s[1] + SumSeq(Tail(s))
RECURSIVE MaxSeq(_)
MaxSeq(s) == IF Len(s) = 1 THEN s[1] ELSE Max2(s[1], MaxSeq(Tail(s)))
RECURSIVE MinSeq(_)
MinSeq(s) == IF Len(s) = 1 THEN s[1] ELSE Min2(s[1], MinSeq(Tail(s)))
RECURSIVE Flatten(_)
Flatten(ss) == IF ss = <<>> THEN <<>> ELSE ss[1] \o Flatten(Tail(ss))
Range(s) == {s[i] : i \in 1..Len(s)}

(* ------------------------------ inputs --------------------------------- *)
ClockStart == 15
TickMinutes == 5
(* the orders a caller may submit: one with both ends near the corridor,   *)
(* one with only its pickup near, one with both ends far                   *)
OrderKinds ==
    { [pickup |-> <<1, 1>>, delivery |-> <<2, 2>>, created_at |-> 0,
       priority |-> 1, estimated_prep_time_minutes |-> 15],
      [pickup |-> <<3, 0>>, delivery |-> <<30, 0>>, created_at |-> 10,
       priority |-> 2, estimated_prep_time_minutes |-> 20],
      [pickup |-> <<40, 40>>, delivery |-> <<41, 41>>, created_at |-> 10,
       priority |-> 1, estimated_prep_time_minutes |-> 10] }
RefTimes == {NoTime, ClockStart}
Deviations == {default_max_highway_deviation_km, 20}
PickupPoints == {k.pickup : k \in OrderKinds}
MergeSizes == 1..3       \* sizes of the batches handed to merge_small_batches
NoDriver == <<>>         \* driver_location=None
Drivers == {NoDriver, <<0, 0>>, <<20, 5>>}
Algorithms == {"heuristic", "vrp"}

VARIABLES
    endpoint,            \* which engine of the routing service this session uses
    max_batch_size,      \* BatchingEngine.max_batch_size
    sklearn_available,   \* SKLEARN_AVAILABLE
    kmeans_fit,          \* the labels KMeans(random_state=seed) gave on its last data
    orders,              \* the caller's list of orders
    now,                 \* datetime.now()
    batch_args,          \* arguments of the last create_batches call
    batches,             \* what the last create_batches call returned
    prev_batches,        \* what the call before it returned, if its arguments were the same
    batch_steps,         \* what the last batching call handed from one step to the next
    tsp_iterations,      \* RoutingEngine.tsp_iterations
    ortools_available,   \* ORTOOLS_AVAILABLE of routing.py
    route_args,          \* arguments of the last optimize_route call
    route,               \* what the last optimize_route call returned
    prev_route,          \* what the call before it returned, if its arguments were the same
    tour_input,          \* a distance matrix or a list of stops a tour method is given
    tour_call,           \* the last call of a tour method on it and what it returned
    providers,           \* TravelTimeManager.providers
    travel,              \* the caches, the shared store and the counters of the providers
    tt_history,          \* the get_travel_time calls made so far and what they returned
    handlers,            \* where each request handler stands in its get_travel_time call
    cache_lock,          \* the handler holding TravelTimeCache._lock, or NoHandler
    vrp_vehicles,        \* the caller's list of vehicles
    vrp_stops,           \* the caller's list of stops
    solver_ortools_available,  \* ORTOOLS_AVAILABLE of solver.py
    vrp_args,            \* arguments of the last solve_vrp call and what the backend did
    vrp_result,          \* what the last solve_vrp call returned
    use_real_stripe,     \* MockStripeConnector.use_real_stripe
    escrows,             \* EscrowStateMachine.escrows, in the order they were created
    escrow_call          \* the last call on the state machine, and the escrows before it

batch_vars == <<max_batch_size, sklearn_available, kmeans_fit, batch_args, batches,
               prev_batches, batch_steps>>
route_vars == <<tsp_iterations, ortools_available, route_args, route, prev_route,
               tour_input, tour_call>>
travel_vars == <<providers, travel, tt_history, handlers, cache_lock>>
vrp_vars == <<vrp_vehicles, vrp_stops, solver_ortools_available, vrp_args, vrp_result>>
escrow_vars == <<use_real_stripe, escrows, escrow_call>>
vars == <<endpoint, orders, now, batch_vars, route_vars, travel_vars, vrp_vars,
          escrow_vars>>

(* ---------------------------- batching.py ------------------------------ *)
(* what KMeans.fit_predict may do on a set of points: raise, or label each   *)
(* of them; points outside the data carry no label (written 0)             *)
KMeansFits(points) ==
    {f \in [raises : BOOLEAN, label : [PickupPoints -> 0..(MaxLabels - 1)]] :
        \A p \in PickupPoints : (f.raises \/ p \notin points) => f.label[p] = 0}
NoFit == [data |-> <<>>, raises |-> TRUE, label |-> [p \in PickupPoints |-> 0]]

get_highway_reference_point == <<0, 0>>

haversine_distance(p, q) == Abs(p[1] - q[1]) + Abs(p[2] - q[2])

calculate_cluster_center(os) ==
    IF os = <<>> THEN <<0, 0, 1>>
    ELSE <<SumSeq([i \in 1..Len(os) |-> os[i].pickup[1] + os[i].delivery[1]]),
           SumSeq([i \in 1..Len(os) |-> os[i].pickup[2] + os[i].delivery[2]]),
           2 * Len(os)>>

(* distance between two centroids c and d is at most km *)
CenterDistanceLeq(c, d, km) ==
    Abs(c[1] * d[3] - d[1] * c[3]) + Abs(c[2] * d[3] - d[2] * c[3])
        <= km * c[3] * d[3]

(* timedelta(hours=...) in place of timedelta(minutes=...) *)
filter_orders_by_time_window_Hours(os, current_time, clock) ==
    LET ct == IF current_time = NoTime THEN clock ELSE current_time
        window_start == ct - 60 * batch_window_minutes
        InWindow(o) == o.created_at >= window_start
    IN SelectSeq(os, InWindow)

filter_orders_by_time_window(os, current_time, clock) ==
    LET ct == IF current_time = NoTime THEN clock ELSE current_time
        window_start == ct - batch_window_minutes
        InWindow(o) == o.created_at >= window_start
    IN SelectSeq(os, InWindow)

filter_orders_by_highway_deviation(os, max_deviation_km) ==
    LET hp == get_highway_reference_point
        Near(o) == \/ haversine_distance(o.pickup, hp) <= max_deviation_km
                   \/ haversine_distance(o.delivery, hp) <= max_deviation_km
    IN SelectSeq(os, Near)

(* list.sort(key=lambda x: (-x.priority, x.created_at)), a stable sort *)
SortKeyLess(a, b) ==
    \/ a.priority > b.priority
    \/ a.priority = b.priority /\ a.created_at < b.created_at
RECURSIVE SortOrders(_)
SortOrders(os) ==
    IF os = <<>> THEN <<>>
    ELSE LET n == Len(os)
             rest == SortOrders(SubSeq(os, 1, n - 1))
             x == os[n]
             before == {j \in 1..Len(rest) : SortKeyLess(x, rest[j])}
             pos == IF before = {} THEN Len(rest) + 1
                    ELSE CHOOSE j \in before : \A k \in before : j <= k
         IN SubSeq(rest, 1, pos - 1) \o <<x>> \o SubSeq(rest, pos, Len(rest))

CeilSqrt(n) == CHOOSE g \in 0..n : g * g >= n /\ \A h \in 0..n : h * h >= n => g <= h

RECURSIVE DistinctInOrder(_)
DistinctInOrder(s) ==
    IF s = <<>> THEN <<>>
    ELSE LET rest == DistinctInOrder(SubSeq(s, 1, Len(s) - 1))
             x == s[Len(s)]
         IN IF x \in Range(rest) THEN rest ELSE Append(rest, x)

grid_clustering(os, n_clusters) ==
    IF Len(os) <= n_clusters THEN [i \in 1..Len(os) |-> <<os[i]>>]
    ELSE LET lats == [i \in 1..Len(os) |-> os[i].pickup[1]]
             lngs == [i \in 1..Len(os) |-> os[i].pickup[2]]
             min_lat == MinSeq(lats)
             max_lat == MaxSeq(lats)
             min_lng == MinSeq(lngs)
             max_lng == MaxSeq(lngs)
             grid_size == CeilSqrt(n_clusters)
             (* int((x - min) / ((max - min) / grid_size)) *)
             Cell(x, lo, hi) ==
                 Min2(IF hi > lo THEN ((x - lo) * grid_size) \div (hi - lo) ELSE 0,
                      grid_size - 1)
             cell_key(o) == <<Cell(o.pickup[1], min_lat, max_lat),
                              Cell(o.pickup[2], min_lng, max_lng)>>
             keys == DistinctInOrder([i \in 1..Len(os) |-> cell_key(os[i])])
             InCell(k) == LET T(o) == cell_key(o) = k IN SelectSeq(os, T)
         IN [j \in 1..Len(keys) |-> InCell(keys[j])]

kmeans_clustering(os, n_clusters, sklearn, fit) ==
    IF ~sklearn THEN grid_clustering(os, n_clusters)
    ELSE IF Len(os) <= n_clusters THEN [i \in 1..Len(os) |-> <<os[i]>>]
    ELSE IF fit.raises THEN grid_clustering(os, n_clusters)
    ELSE LET Labelled(l) == LET T(o) == fit.label[o.pickup] % n_clusters = l
                            IN SelectSeq(os, T)
             clusters == [l \in 1..n_clusters |-> Labelled(l - 1)]
             NonEmpty(c) == c # <<>>
         IN SelectSeq(clusters, NonEmpty)

(* every cluster accepted *)
validate_cluster_highway_deviation_Always(cluster, max_deviation_km) == TRUE

validate_cluster_highway_deviation(cluster, max_deviation_km) ==
    IF cluster = <<>> THEN TRUE
    ELSE LET hp == get_highway_reference_point
         IN CenterDistanceLeq(calculate_cluster_center(cluster),
                              <<hp[1], hp[2], 1>>, max_deviation_km)

(* only the first chunk of a large cluster kept *)
Chunks_FirstOnly(cluster, size) ==
    IF cluster = <<>> THEN <<>>
    ELSE <<SubSeq(cluster, 1, Min2(size, Len(cluster)))>>

RECURSIVE Chunks(_, _)
Chunks(cluster, size) ==
    IF cluster = <<>> THEN <<>>
    ELSE <<SubSeq(cluster, 1, Min2(size, Len(cluster)))>>
         \o Chunks(SubSeq(cluster, size + 1, Len(cluster)), size)

(* large clusters not split *)
balance_batches_NoSplit(clusters, mbs) == clusters

balance_batches(clusters, mbs) ==
    Flatten([i \in 1..Len(clusters) |->
                IF Len(clusters[i]) <= mbs THEN <<clusters[i]>>
                ELSE Chunks(clusters[i], mbs)])

RECURSIVE MergeFrom(_, _, _)
MergeFrom(bs, i, mbs) ==
    IF i > Len(bs) THEN <<>>
    ELSE IF /\ Len(bs[i]) <= 2
            /\ i + 1 <= Len(bs)
            /\ Len(bs[i]) + Len(bs[i + 1]) <= mbs
            /\ CenterDistanceLeq(calculate_cluster_center(bs[i]),
                                 calculate_cluster_center(bs[i + 1]),
                                 merge_threshold_km)
         THEN <<bs[i] \o bs[i + 1]>> \o MergeFrom(bs, i + 2, mbs)
         ELSE <<bs[i]>> \o MergeFrom(bs, i + 1, mbs)

merge_small_batches(bs, mbs) ==
    IF Len(bs) <= 1 THEN bs ELSE MergeFrom(bs, 1, mbs)

Batch(batch_orders, i, current_time, clock) ==
    [id |-> <<clock, i>>,
     orders |-> batch_orders,
     center |-> calculate_cluster_center(batch_orders),
     created_at |-> IF current_time = NoTime THEN clock ELSE current_time,
     estimated_duration_minutes |-> 0]

(* the sort left out: the orders stay in the order of the caller's list *)
prepare_orders_Unsorted(os, current_time, max_highway_deviation_km, clock) ==
    LET eligible_orders == filter_orders_by_time_window(os, current_time, clock)
        near == filter_orders_by_highway_deviation(eligible_orders,
                                                   max_highway_deviation_km)
    IN IF os = <<>> \/ eligible_orders = <<>> THEN <<>>
       ELSE IF near = <<>> THEN eligible_orders ELSE near

(* create_batches up to the sort: the time-window filter, the corridor      *)
(* filter with its fallback to the unfiltered list, and the stable sort    *)
prepare_orders(os, current_time, max_highway_deviation_km, clock) ==
    LET eligible_orders == filter_orders_by_time_window(os, current_time, clock)
        near == filter_orders_by_highway_deviation(eligible_orders,
                                                   max_highway_deviation_km)
    IN IF os = <<>> \/ eligible_orders = <<>> THEN <<>>
       ELSE SortOrders(IF near = <<>> THEN eligible_orders ELSE near)

(* n_clusters as ceil(count / (max_batch_size / 2)) *)
cluster_count_Ceil(count, mbs) == (2 * count + mbs - 1) \div mbs

(* n_clusters; only evaluated when max_batch_size // 2 is not 0 *)
cluster_count(count, mbs) ==
    IF count <= mbs THEN 1 ELSE Max2(1, count \div (mbs \div 2))

create_batches(os, current_time, max_highway_deviation_km, mbs, sklearn, fit, clock) ==
    LET highway_filtered_orders ==
            prepare_orders(os, current_time, max_highway_deviation_km, clock)
        count == Len(highway_filtered_orders)
    IN IF highway_filtered_orders = <<>> THEN [status |-> Returned, out |-> <<>>]
       ELSE IF count > mbs /\ mbs \div 2 = 0
       THEN [status |-> Raised, out |-> <<>>]   \* ZeroDivisionError
       ELSE LET n_clusters == cluster_count(count, mbs)
                clusters == kmeans_clustering(highway_filtered_orders, n_clusters,
                                              sklearn, fit)
                Valid(c) == validate_cluster_highway_deviation(
                                c, max_highway_deviation_km)
                valid == SelectSeq(clusters, Valid)
                valid_clusters == IF valid = <<>> THEN clusters ELSE valid
                balanced_batches == balance_batches(valid_clusters, mbs)
                final_batches == merge_small_batches(balanced_batches, mbs)
                RECURSIVE Build(_)
                Build(i) ==
                    IF i > Len(final_batches) THEN <<>>
                    ELSE (IF final_batches[i] # <<>>
                          THEN <<Batch(final_batches[i], i - 1, current_time, clock)>>
                          ELSE <<>>) \o Build(i + 1)
            IN [status |-> Returned, out |-> Build(1)]

(* the values create_batches passes from step to step: the orders left     *)
(* after the filters and the sort, the n_clusters it asks the clustering   *)
(* step for, the clusters it gets, those it keeps, the balanced and the    *)
(* merged batches; clustered is FALSE when the call returns or raises      *)
(* before it clusters                                                      *)
NoSteps ==
    [clustered |-> FALSE, remaining |-> <<>>, n_clusters |-> 0, clusters |-> <<>>,
     valid_clusters |-> <<>>, balanced_batches |-> <<>>, final_batches |-> <<>>]

create_batches_steps(os, current_time, max_highway_deviation_km, mbs, sklearn, fit, clock) ==
    LET highway_filtered_orders ==
            prepare_orders(os, current_time, max_highway_deviation_km, clock)
        count == Len(highway_filtered_orders)
    IN IF highway_filtered_orders = <<>> THEN NoSteps
       ELSE IF count > mbs /\ mbs \div 2 = 0
       THEN [NoSteps EXCEPT !.remaining = highway_filtered_orders]
       ELSE LET n_clusters == cluster_count(count, mbs)
                clusters == kmeans_clustering(highway_filtered_orders, n_clusters,
                                              sklearn, fit)
                Valid(c) == validate_cluster_highway_deviation(
                                c, max_highway_deviation_km)
                valid == SelectSeq(clusters, Valid)
                valid_clusters == IF valid = <<>> THEN clusters ELSE valid
                balanced_batches == balance_batches(valid_clusters, mbs)
            IN [clustered |-> TRUE, remaining |-> highway_filtered_orders,
                n_clusters |-> n_clusters, clusters |-> clusters,
                valid_clusters |-> valid_clusters,
                balanced_batches |-> balanced_batches,
                final_batches |-> merge_small_batches(balanced_batches, mbs)]

(* the data KMeans.fit_predict is run on by this call: the pickup points   *)
(* and n_clusters, or <<>> when the call never fits a model with more than *)
(* one cluster                                                             *)
kmeans_data(os, current_time, max_highway_deviation_km, mbs, sklearn, clock) ==
    LET hfo == prepare_orders(os, current_time, max_highway_deviation_km, clock)
        count == Len(hfo)
    IN IF ~sklearn \/ hfo = <<>> \/ count <= mbs \/ mbs \div 2 = 0 THEN <<>>
       ELSE IF count <= cluster_count(count, mbs) THEN <<>>
       ELSE <<[i \in 1..count |-> hfo[i].pickup], cluster_count(count, mbs)>>

(* the points of the data of a fit *)
kmeans_points(data) == {data[1][i] : i \in 1..Len(data[1])}

(* a KMeans built without random_state: every fit is a fresh one *)
kmeans_fits_Unseeded(data, memo) ==
    IF data = <<>> THEN {NoFit}
    ELSE {[data |-> data, raises |-> f.raises, label |-> f.label] :
             f \in KMeansFits(kmeans_points(data))}

(* KMeans(n_clusters, random_state=self.seed, n_init=10).fit_predict: the   *)
(* fits it may return on data, given the fit memo it returned last; equal   *)
(* points get equal labels, and a fixed random_state repeats the fit        *)
kmeans_fits(data, memo) ==
    IF data = <<>> THEN {NoFit}
    ELSE IF data = memo.data THEN {memo}
    ELSE {[data |-> data, raises |-> f.raises, label |-> f.label] :
             f \in KMeansFits(kmeans_points(data))}

(* ----------------------------- routing.py ------------------------------ *)
(* points are <<lat * d, lng * d, d>>; distances are scaled by the          *)
(* denominator of the start point                                          *)
create_distance_matrix(points) ==
    LET n == Len(points)
        scale == points[1][3]
        X(q) == q[1] * (scale \div q[3])
        Y(q) == q[2] * (scale \div q[3])
    IN [i \in 0..(n - 1) |-> [j \in 0..(n - 1) |->
           IF i # j
           THEN Abs(X(points[i + 1]) - X(points[j + 1]))
                + Abs(Y(points[i + 1]) - Y(points[j + 1]))
           ELSE 0]]

(* the sum with the last leg of the tour left out *)
calculate_tour_distance_Open(tour, distance_matrix) ==
    SumSeq([i \in 1..(Len(tour) - 2) |-> distance_matrix[tour[i]][tour[i + 1]]])

calculate_tour_distance(tour, distance_matrix) ==
    SumSeq([i \in 1..(Len(tour) - 1) |-> distance_matrix[tour[i]][tour[i + 1]]])

(* min(unvisited, key=...) returns the first minimal element in the set's  *)
(* iteration order, which for small ints is ascending                      *)
RECURSIVE NearestNeighborWalk(_, _, _, _, _)
NearestNeighborWalk(distance_matrix, tour, unvisited, current, total_distance) ==
    IF unvisited = {} THEN <<tour, total_distance, current>>
    ELSE LET nearest == CHOOSE x \in unvisited :
                 \A y \in unvisited :
                     \/ distance_matrix[current][x] < distance_matrix[current][y]
                     \/ /\ distance_matrix[current][x] = distance_matrix[current][y]
                        /\ x <= y
         IN NearestNeighborWalk(distance_matrix, Append(tour, nearest),
                                unvisited \ {nearest}, nearest,
                                total_distance + distance_matrix[current][nearest])

(* the closing tour.append(start_index) left out *)
nearest_neighbor_tsp_Open(distance_matrix, n, start_index) ==
    IF n <= 1 THEN <<[i \in 1..n |-> i - 1], 0>>
    ELSE LET w == NearestNeighborWalk(distance_matrix, <<start_index>>,
                                      (0..(n - 1)) \ {start_index}, start_index, 0)
         IN <<w[1], w[2] + distance_matrix[w[3]][start_index]>>

nearest_neighbor_tsp(distance_matrix, n, start_index) ==
    IF n <= 1 THEN <<[i \in 1..n |-> i - 1], 0>>
    ELSE LET w == NearestNeighborWalk(distance_matrix, <<start_index>>,
                                      (0..(n - 1)) \ {start_index}, start_index, 0)
         IN <<Append(w[1], start_index), w[2] + distance_matrix[w[3]][start_index]>>

Reverse(s) == [i \in 1..Len(s) |-> s[Len(s) + 1 - i]]

(* one pass of the two nested loops of two_opt_improvement; i and j are the *)
(* 0-based loop indices, st carries tour, best_tour, best_distance, improved *)
RECURSIVE TwoOptPass(_, _, _, _)
TwoOptPass(st, i, j, distance_matrix) ==
    LET len == Len(st.tour)
    IN IF i > len - 3 THEN st
       ELSE IF j > len - 2 THEN TwoOptPass(st, i + 1, i + 2, distance_matrix)
       ELSE LET new_tour == SubSeq(st.tour, 1, i)
                            \o Reverse(SubSeq(st.tour, i + 1, j + 1))
                            \o SubSeq(st.tour, j + 2, len)
                new_distance == calculate_tour_distance(new_tour, distance_matrix)
            IN IF new_distance < st.best_distance
               THEN TwoOptPass([tour |-> new_tour, best_tour |-> new_tour,
                                best_distance |-> new_distance, improved |-> TRUE],
                               i, j + 1, distance_matrix)
               ELSE TwoOptPass(st, i, j + 1, distance_matrix)

RECURSIVE TwoOptLoop(_, _, _, _)
TwoOptLoop(st, iterations, max_iterations, distance_matrix) ==
    IF st.improved /\ iterations < max_iterations
    THEN TwoOptLoop(TwoOptPass([st EXCEPT !.improved = FALSE], 1, 2, distance_matrix),
                    iterations + 1, max_iterations, distance_matrix)
    ELSE [tour |-> st.tour, best_tour |-> st.best_tour,
          best_distance |-> st.best_distance, improved |-> st.improved,
          iterations |-> iterations]

(* the while loop of two_opt_improvement: the tours and the distance it    *)
(* ends with, the passes it made and whether the last one improved         *)
two_opt_loop(tour, distance_matrix, max_iterations) ==
    TwoOptLoop([tour |-> tour, best_tour |-> tour,
                best_distance |-> calculate_tour_distance(tour, distance_matrix),
                improved |-> TRUE],
               0, max_iterations, distance_matrix)

two_opt_improvement(tour, distance_matrix, max_iterations) ==
    LET st == TwoOptLoop([tour |-> tour, best_tour |-> tour,
                          best_distance |-> calculate_tour_distance(tour, distance_matrix),
                          improved |-> TRUE],
                         0, max_iterations, distance_matrix)
    IN <<st.best_tour, st.best_distance>>

(* stable sort of RouteStops by their sequence field *)
RECURSIVE SortBySequence(_)
SortBySequence(stops) ==
    IF stops = <<>> THEN <<>>
    ELSE LET n == Len(stops)
             rest == SortBySequence(SubSeq(stops, 1, n - 1))
             x == stops[n]
             before == {j \in 1..Len(rest) : x.sequence < rest[j].sequence}
             pos == IF before = {} THEN Len(rest) + 1
                    ELSE CHOOSE j \in before : \A k \in before : j <= k
         IN SubSeq(rest, 1, pos - 1) \o <<x>> \o SubSeq(rest, pos, Len(rest))

(* the regrouping left out: stops stay in tour order *)
enforce_pickup_before_delivery_TourOrder(stops) ==
    [i \in 1..Len(stops) |-> [stops[i] EXCEPT !.sequence = i - 1]]

(* the pickups taken last to first *)
enforce_pickup_before_delivery_PickupsReversed(stops) ==
    LET IsPickup(s) == s.stop_type = "pickup"
        IsDelivery(s) == s.stop_type = "delivery"
        reordered_stops == Reverse(SortBySequence(SelectSeq(stops, IsPickup)))
                           \o SortBySequence(SelectSeq(stops, IsDelivery))
    IN [i \in 1..Len(reordered_stops) |->
           [reordered_stops[i] EXCEPT !.sequence = i - 1]]

(* the renumbering loop left out *)
enforce_pickup_before_delivery_NoRenumber(stops) ==
    LET IsPickup(s) == s.stop_type = "pickup"
        IsDelivery(s) == s.stop_type = "delivery"
    IN SortBySequence(SelectSeq(stops, IsPickup))
       \o SortBySequence(SelectSeq(stops, IsDelivery))

enforce_pickup_before_delivery(stops) ==
    LET IsPickup(s) == s.stop_type = "pickup"
        IsDelivery(s) == s.stop_type = "delivery"
        pickup_stops == SortBySequence(SelectSeq(stops, IsPickup))
        delivery_stops == SortBySequence(SelectSeq(stops, IsDelivery))
        reordered_stops == pickup_stops \o delivery_stops
    IN [i \in 1..Len(reordered_stops) |->
           [reordered_stops[i] EXCEPT !.sequence = i - 1]]

(* int((total_distance_km / 25) * 60) + 8 * len(stops); the distance is the *)
(* fraction num / den                                                      *)
estimate_route_duration(stops, num, den) ==
    IF stops = <<>> THEN 0
    ELSE (num * 60) \div (25 * den) + Len(stops) * 8

heuristic_route(batch, driver_location, max_iterations) ==
    IF batch.orders = <<>>
    THEN [batch_id |-> batch.id, stops |-> <<>>, total_distance_km |-> <<0, 1>>,
          estimated_duration_minutes |-> 0,
          optimization_algorithm |-> "heuristic", optimization_score |-> <<100, 1>>]
    ELSE LET n == Len(batch.orders)
             start == IF driver_location # NoDriver
                      THEN <<driver_location[1], driver_location[2], 1>>
                      ELSE batch.center
             points == <<start>>
                       \o [i \in 1..n |-> <<batch.orders[i].pickup[1],
                                            batch.orders[i].pickup[2], 1>>]
                       \o [i \in 1..n |-> <<batch.orders[i].delivery[1],
                                            batch.orders[i].delivery[2], 1>>]
             all_stops == [i \in 1..n |->
                              [order_id |-> batch.orders[i].id, type |-> "pickup",
                               index |-> i, point |-> batch.orders[i].pickup]]
                          \o [i \in 1..n |->
                              [order_id |-> batch.orders[i].id, type |-> "delivery",
                               index |-> n + i, point |-> batch.orders[i].delivery]]
             distance_matrix == create_distance_matrix(points)
             nn == nearest_neighbor_tsp(distance_matrix, Len(points), 0)
             improved == two_opt_improvement(nn[1], distance_matrix, max_iterations)
             improved_tour == improved[1]
             improved_distance == improved[2]
             (* the tour positions 1..len-2 that name a stop *)
             found == [i \in 2..(Len(improved_tour) - 1) |->
                          {k \in 1..Len(all_stops) :
                               all_stops[k].index = improved_tour[i]}]
             hits == SelectSeq([i \in 1..(Len(improved_tour) - 2) |-> found[i + 1]],
                               LAMBDA f : f # {})
             route_stops ==
                 [q \in 1..Len(hits) |->
                     LET stop == all_stops[CHOOSE k \in hits[q] :
                                               \A m \in hits[q] : k <= m]
                     IN [order_id |-> stop.order_id, stop_type |-> stop.type,
                         point |-> stop.point, sequence |-> q - 1,
                         estimated_arrival_minutes |-> 0]]
             final_stops == enforce_pickup_before_delivery(route_stops)
             den == start[3]
             doubled == 100 * den - 2 * improved_distance
         IN [batch_id |-> batch.id, stops |-> final_stops,
             total_distance_km |-> <<improved_distance, den>>,
             estimated_duration_minutes |->
                 estimate_route_duration(final_stops, improved_distance, den),
             optimization_algorithm |-> "heuristic_2opt",
             optimization_score |-> <<Max2(50 * den, Min2(100 * den, doubled)), den>>]

vrp_route(batch, driver_location, max_iterations, ortools) ==
    heuristic_route(batch, driver_location, max_iterations)

optimize_route(batch, driver_location, algorithm, max_iterations, ortools) ==
    IF algorithm = "vrp" /\ ortools
    THEN vrp_route(batch, driver_location, max_iterations, ortools)
    ELSE heuristic_route(batch, driver_location, max_iterations)

(* --------------------------- travel_time.py ---------------------------- *)
(* A coordinate is an integer number of 1e-5 degrees; a distance is the    *)
(* Manhattan metric on those units, read as metres.  The shared store,     *)
(* once connected, answers every get and setex.                            *)
cache_ttl_minutes == 10        \* cache_ttl_seconds=600
local_cache_limit == 1000
HalfTurn == 18000000           \* 180 degrees
Noise == {90, 110}             \* random.uniform(-0.1, 0.1), in percent
ProviderNames == {"mock", "osrm", "graphhopper", "google_maps"}
ApiNames == {"osrm", "graphhopper", "google_maps"}

(* the requests a caller may send: a short trip, the same trip from a      *)
(* point that rounds to the same four decimals, and a trip to the antipode *)
TravelRequests ==
    { [from_lat |-> 4538000, from_lng |-> 0 - 7570000, to_lat |-> 4540000,
       to_lng |-> 0 - 7568000, mode |-> "driving", departure_time |-> NoTime],
      [from_lat |-> 4538002, from_lng |-> 0 - 7570000, to_lat |-> 4540000,
       to_lng |-> 0 - 7568000, mode |-> "driving", departure_time |-> NoTime],
      [from_lat |-> 8000, from_lng |-> 0, to_lat |-> 0 - 8000,
       to_lng |-> HalfTurn, mode |-> "walking", departure_time |-> NoTime] }

(* the provider lists a manager may be built with; cache 1 is the cache of *)
(* create_travel_time_manager, otherwise each provider has its own         *)
MockProvider(c) == [name |-> "mock", api_key |-> FALSE, cache |-> c]
OSRMProvider(c) == [name |-> "osrm", api_key |-> FALSE, cache |-> c]
GraphHopperProvider(key, c) == [name |-> "graphhopper", api_key |-> key, cache |-> c]
GoogleMapsProvider(key, c) == [name |-> "google_maps", api_key |-> key, cache |-> c]
ProviderChains ==
    { <<MockProvider(1)>>,
      <<OSRMProvider(1), MockProvider(1)>>,
      <<OSRMProvider(1), MockProvider(2)>>,
      <<GraphHopperProvider(FALSE, 1), MockProvider(1)>>,
      <<GraphHopperProvider(FALSE, 1), MockProvider(2)>>,
      <<GoogleMapsProvider(TRUE, 1), OSRMProvider(2)>> }
MaxChain == 2                  \* longest provider list of ProviderChains

NoTravelResult == [duration_seconds |-> 0, distance_meters |-> 0, mode |-> "driving",
                   provider |-> "none", cached |-> FALSE, calculated_at |-> NoTime]
NoEntry == [present |-> FALSE, result |-> NoTravelResult, expiry |-> 0]

(* round(x, 4); no modelled coordinate ends in the digit 5 *)
round4(c) == IF c >= 0 THEN ((c + 5) \div 10) * 10
             ELSE 0 - (((0 - c) + 5) \div 10) * 10

(* the md5 of the joined key parts, one key per distinct list of parts *)
_generate_cache_key(request) ==
    <<round4(request.from_lat), round4(request.from_lng), round4(request.to_lat),
      round4(request.to_lng), request.mode>>
      \o (IF request.departure_time = NoTime THEN <<>>
          ELSE <<request.departure_time \div 60>>)

CacheKeys == {_generate_cache_key(r) : r \in TravelRequests}
EmptyCache == [k \in CacheKeys |-> NoEntry]

(* the entry the cache holds for the key at this time, if any *)
CacheEntry(w, c, key, clock) ==
    IF w.redis_client /\ w.redis_store[key].present /\ clock < w.redis_store[key].expiry
    THEN w.redis_store[key]
    ELSE IF w.local_cache[c][key].present /\ clock < w.local_cache[c][key].expiry
    THEN w.local_cache[c][key]
    ELSE NoEntry

(* a local entry served whatever its expiry *)
TravelTimeCache_get_NoExpiry(w, c, request, clock) ==
    LET key == _generate_cache_key(request)
        r == w.redis_store[key]
        l == w.local_cache[c][key]
    IN IF w.redis_client /\ r.present /\ clock < r.expiry
       THEN [w |-> [w EXCEPT !.cache_stats[c].hits = @ + 1],
             hit |-> TRUE, result |-> [r.result EXCEPT !.cached = TRUE]]
       ELSE IF l.present
       THEN [w |-> [w EXCEPT !.local_cache[c][key].result.cached = TRUE,
                             !.cache_stats[c].hits = @ + 1],
             hit |-> TRUE, result |-> [l.result EXCEPT !.cached = TRUE]]
       ELSE [w |-> [w EXCEPT !.cache_stats[c].misses = @ + 1],
             hit |-> FALSE, result |-> NoTravelResult]

(* a hit that leaves the stored result's cached flag alone *)
TravelTimeCache_get_Unmarked(w, c, request, clock) ==
    LET key == _generate_cache_key(request)
        e == CacheEntry(w, c, key, clock)
    IN IF e.present
       THEN [w |-> [w EXCEPT !.cache_stats[c].hits = @ + 1],
             hit |-> TRUE, result |-> e.result]
       ELSE [w |-> [w EXCEPT !.local_cache[c][key] = NoEntry,
                             !.cache_stats[c].misses = @ + 1],
             hit |-> FALSE, result |-> NoTravelResult]

TravelTimeCache_get(w, c, request, clock) ==
    LET key == _generate_cache_key(request)
        r == w.redis_store[key]
        l == w.local_cache[c][key]
    IN IF w.redis_client /\ r.present /\ clock < r.expiry
       THEN [w |-> [w EXCEPT !.cache_stats[c].hits = @ + 1],
             hit |-> TRUE, result |-> [r.result EXCEPT !.cached = TRUE]]
       ELSE IF l.present /\ clock < l.expiry
       THEN [w |-> [w EXCEPT !.local_cache[c][key].result.cached = TRUE,
                             !.cache_stats[c].hits = @ + 1],
             hit |-> TRUE, result |-> [l.result EXCEPT !.cached = TRUE]]
       ELSE [w |-> [w EXCEPT !.local_cache[c][key] = NoEntry,
                             !.cache_stats[c].misses = @ + 1],
             hit |-> FALSE, result |-> NoTravelResult]

_cleanup_local_cache(cache, clock) ==
    [k \in DOMAIN cache |->
        IF cache[k].present /\ clock >= cache[k].expiry THEN NoEntry ELSE cache[k]]

TravelTimeCache_set(w, c, request, result, ttl, clock) ==
    LET key == _generate_cache_key(request)
        t == IF ttl = NoTime \/ ttl = 0 THEN w.default_ttl ELSE ttl
        stored == [w.local_cache[c] EXCEPT
                      ![key] = [present |-> TRUE, result |-> result,
                                expiry |-> clock + t]]
    IN IF w.redis_client
       THEN [w EXCEPT !.redis_store[key] =
                         [present |-> TRUE, result |-> [result EXCEPT !.cached = FALSE],
                          expiry |-> clock + t]]
       ELSE [w EXCEPT !.local_cache[c] =
                         IF Cardinality({k \in CacheKeys : stored[k].present})
                                > local_cache_limit
                         THEN _cleanup_local_cache(stored, clock)
                         ELSE stored]

(* math.sqrt(1 - a) is a domain error where rounding makes a exceed 1, as  *)
(* it does for the antipodal request of TravelRequests                     *)
_haversine_distance(request) ==
    [raised |-> /\ request.to_lat = 0 - request.from_lat
                /\ Abs(request.to_lng - request.from_lng) = HalfTurn,
     meters |-> IF /\ request.to_lat = 0 - request.from_lat
                   /\ Abs(request.to_lng - request.from_lng) = HalfTurn
                THEN 0
                ELSE Abs(request.to_lat - request.from_lat)
                        + Abs(request.to_lng - request.from_lng)]

fallback_tag(name) ==
    CASE name = "mock" -> "mock_fallback"
      [] name = "osrm" -> "osrm_fallback"
      [] name = "graphhopper" -> "graphhopper_fallback"
      [] name = "google_maps" -> "google_maps_fallback"

(* "fallback" in result.provider *)
IsFallback(provider) == provider \in {fallback_tag(n) : n \in ProviderNames}

speed_kmh(mode) ==
    CASE mode = "driving" -> 40
      [] mode = "walking" -> 5
      [] mode = "cycling" -> 15
      [] OTHER -> 40

_fallback_calculation(name, request) ==
    LET d == _haversine_distance(request)
    IN [raised |-> d.raised,
        result |-> [duration_seconds |-> (d.meters * 18)
                                            \div (5 * speed_kmh(request.mode)),
                    distance_meters |-> d.meters,
                    mode |-> request.mode,
                    provider |-> fallback_tag(name),
                    cached |-> FALSE,
                    calculated_at |-> NoTime]]

(* MockTravelTimeProvider._calculate_travel_time with avg_speed_kmh=40:    *)
(* seconds per km are 3600/40 * 1.3 + 30 = 147 driving, 3600/5 = 720       *)
(* walking and 3600/15 = 240 cycling, then the random multiplier           *)
mock_calculate_travel_time(request, noise) ==
    LET d == _haversine_distance(request)
        seconds_per_km == IF request.mode = "walking" THEN 720
                          ELSE IF request.mode = "cycling" THEN 240
                          ELSE IF request.mode = "driving" THEN 147
                          ELSE 90
    IN [raised |-> d.raised,
        result |-> [duration_seconds |-> (d.meters * seconds_per_km * noise)
                                            \div (1000 * 100),
                    distance_meters |-> d.meters,
                    mode |-> request.mode,
                    provider |-> "mock",
                    cached |-> FALSE,
                    calculated_at |-> NoTime]]

(* what the routing API answers when it answers: a duration and a road     *)
(* distance of its own, varying from call to call                          *)
api_answer(name, request, noise) ==
    [duration_seconds |-> 6 * noise,
     distance_meters |-> 50 * noise,
     mode |-> request.mode,
     provider |-> name,
     cached |-> FALSE,
     calculated_at |-> NoTime]

(* OSRMProvider, GraphHopperProvider and GoogleMapsProvider: a failed API  *)
(* call reaches logger.warning(..., error=e), which raises on the          *)
(* exception object it is asked to serialise                               *)
api_calculate_travel_time(p, request, env) ==
    IF p.name # "osrm" /\ ~p.api_key
    THEN _fallback_calculation(p.name, request)
    ELSE IF p.name \in env.up
    THEN [raised |-> FALSE, result |-> api_answer(p.name, request, env.noise)]
    ELSE [raised |-> TRUE, result |-> NoTravelResult]

_calculate_travel_time(p, request, env) ==
    IF p.name = "mock" THEN mock_calculate_travel_time(request, env.noise)
    ELSE api_calculate_travel_time(p, request, env)

(* BaseTravelTimeProvider.get_travel_time of the provider p whose counters *)
(* are kept at index i                                                     *)
get_travel_time(w, i, p, request, env, clock) ==
    LET w1 == [w EXCEPT !.request_count[i] = @ + 1]
        g == TravelTimeCache_get(w1, p.cache, request, clock)
        calc == _calculate_travel_time(p, request, env)
        stamped == [calc.result EXCEPT !.calculated_at = clock]
        w2 == TravelTimeCache_set(g.w, p.cache, request, stamped, NoTime, clock)
        w3 == [g.w EXCEPT !.error_count[i] = @ + 1]
        fb == _fallback_calculation(p.name, request)
    IN IF g.hit
       THEN [w |-> g.w, status |-> Returned, result |-> g.result, calc |-> "hit"]
       ELSE IF ~calc.raised
       THEN [w |-> w2, status |-> Returned, result |-> stamped, calc |-> "computed"]
       ELSE IF fb.raised
       THEN [w |-> w3, status |-> Raised, result |-> NoTravelResult, calc |-> "raised"]
       ELSE [w |-> w3, status |-> Returned, result |-> fb.result, calc |-> "raised"]

(* what a get_travel_time call of provider i did, as the caller, the       *)
(* provider's statistics and the stores of its cache show it               *)
CallRecord(w, r, i, p, request, clock) ==
    [provider |-> i, name |-> p.name, cache |-> p.cache, request |-> request,
     at |-> clock, status |-> r.status, result |-> r.result, calc |-> r.calc,
     errors_before |-> w.error_count[i], errors_after |-> r.w.error_count[i],
     wrote |-> LET key == _generate_cache_key(request)
                   New(before, after) ==
                       after.present /\ (~before.present \/ after.expiry # before.expiry)
               IN \/ New(w.local_cache[p.cache][key], r.w.local_cache[p.cache][key])
                  \/ New(w.redis_store[key], r.w.redis_store[key]),
     local_entry |-> r.w.local_cache[p.cache][_generate_cache_key(request)],
     entry_expiry |->
        LET e == CacheEntry(r.w, p.cache, _generate_cache_key(request), clock)
        IN IF e.present THEN e.expiry ELSE NoTime]

(* the MockTravelTimeProvider() the manager builds when its last provider  *)
(* raised: a provider with a cache of its own, dropped after the call      *)
AdHoc == 0
ForgetAdHoc(w) ==
    [w EXCEPT !.local_cache[AdHoc] = EmptyCache,
              !.cache_stats[AdHoc] = [hits |-> 0, misses |-> 0, errors |-> 0],
              !.request_count[AdHoc] = 0,
              !.error_count[AdHoc] = 0]

(* the manager takes a result from any provider, fallback or not *)
manager_accepts_Any(result, i, n) == TRUE

(* TravelTimeManager.get_travel_time: "fallback" not in result.provider,   *)
(* or the last provider                                                    *)
manager_accepts(result, i, n) == ~IsFallback(result.provider) \/ i = n

RECURSIVE manager_loop(_, _, _, _, _, _, _)
manager_loop(w, chain, i, request, env, clock, log) ==
    LET p == chain[i]
        n == Len(chain)
        r == get_travel_time(w, i, p, request, env, clock)
        log1 == Append(log, CallRecord(w, r, i, p, request, clock))
        won == [r.w EXCEPT !.request_stats[p.name].success = @ + 1]
        lost == [r.w EXCEPT !.request_stats[p.name].failure = @ + 1]
        m == get_travel_time(lost, AdHoc, MockProvider(AdHoc), request, env, clock)
        log2 == Append(log1, CallRecord(lost, m, AdHoc, MockProvider(AdHoc),
                                        request, clock))
    IN IF r.status = Returned
       THEN IF manager_accepts(r.result, i, n)
            THEN [w |-> IF IsFallback(r.result.provider) THEN lost ELSE won,
                  status |-> Returned, result |-> r.result, log |-> log1,
                  returned_by |-> i]
            ELSE manager_loop(lost, chain, i + 1, request, env, clock, log1)
       ELSE IF i = n
       THEN [w |-> ForgetAdHoc(m.w), status |-> m.status, result |-> m.result,
             log |-> log2, returned_by |-> AdHoc]
       ELSE manager_loop(lost, chain, i + 1, request, env, clock, log1)

manager_get_travel_time(w, chain, request, env, clock) ==
    manager_loop(w, chain, 1, request, env, clock, <<>>)

(* ------------------------------ solver.py ------------------------------ *)
default_service_time == 300
NoOrder == 0                   \* order_id=None
StopKinds ==
    { [id |-> "depot", location |-> <<0, 0>>, stop_type |-> "depot",
       order_id |-> NoOrder, service_time |-> default_service_time],
      [id |-> "p1", location |-> <<1, 0>>, stop_type |-> "pickup",
       order_id |-> 1, service_time |-> default_service_time],
      [id |-> "d1", location |-> <<4, 0>>, stop_type |-> "delivery",
       order_id |-> 1, service_time |-> default_service_time],
      [id |-> "p2", location |-> <<2, 1>>, stop_type |-> "pickup",
       order_id |-> 2, service_time |-> default_service_time],
      [id |-> "d2", location |-> <<0, 1>>, stop_type |-> "delivery",
       order_id |-> 2, service_time |-> default_service_time] }
Capacities == {1, 2}

(* Location.distance_to *)
distance_to(p, q) == Abs(p[1] - q[1]) + Abs(p[2] - q[2])

(* MockTravelTimeProvider.get_travel_time of solver.py, avg_speed_kmh=40 *)
mock_get_travel_time(from_loc, to_loc) ==
    LET distance_km == distance_to(from_loc, to_loc)
        travel_time_seconds == (distance_km * 3600) \div 40
    IN [time |-> IF distance_km < 2 THEN (travel_time_seconds * 3) \div 2
                 ELSE travel_time_seconds,
        distance |-> distance_km]

(* the score in tenths: round(min(100, max(0, 0.4 * distance_score         *)
(* + 0.4 * time_score + 0.2 * capacity_score)), 1)                         *)
_calculate_optimization_score(route_stops, total_distance, total_time, vehicle) ==
    IF route_stops = <<>> THEN 0
    ELSE LET distance_score == Max2(0, 100 - total_distance * 2)
             capacity_used == Cardinality({i \in 1..Len(route_stops) :
                                              route_stops[i].stop_type = "pickup"})
             cap == IF vehicle.capacity > 0 THEN vehicle.capacity ELSE 2
             \* the three weighted terms, in tenths, over the denominator 45 * cap
             num == 4 * distance_score * 45 * cap
                      + Max2(0, 18000 - total_time) * cap
                      + (IF vehicle.capacity > 0 THEN 200 * capacity_used * 45
                         ELSE 100 * 45 * cap)
             den == 45 * cap
         IN Min2(1000, Max2(0, (2 * num + den) \div (2 * den)))

RouteStop(stop, sequence, arrival_time) ==
    [stop_id |-> stop.id, order_id |-> stop.order_id, stop_type |-> stop.stop_type,
     location |-> stop.location, sequence |-> sequence,
     arrival_time |-> arrival_time, service_time |-> stop.service_time]

RouteResult(vehicle, route_stops, total_distance, total_time, arrival_times) ==
    [vehicle_id |-> vehicle.id, stops |-> route_stops,
     total_distance_km |-> total_distance,
     total_duration_minutes |-> total_time \div 60,
     load_sequence |-> <<>>, arrival_times |-> arrival_times,
     optimization_score |-> _calculate_optimization_score(route_stops, total_distance,
                                                          total_time, vehicle)]

RemoveAt(s, i) == SubSeq(s, 1, i - 1) \o SubSeq(s, i + 1, Len(s))

capacity_change(stop) == IF stop.stop_type = "pickup" THEN 1 ELSE 0 - 1

(* the inner for loop of _fallback_solver with the first remaining stop    *)
(* that fits taken in place of the nearest                                 *)
nearest_stop_First(remaining_stops, vehicle, current_location, load) ==
    LET fits == {i \in 1..Len(remaining_stops) :
                    load + capacity_change(remaining_stops[i])
                        <= vehicle.capacity}
    IN IF fits = {} THEN 0 ELSE CHOOSE i \in fits : \A j \in fits : i <= j

(* the inner for loop of _fallback_solver: the index of the nearest        *)
(* remaining stop whose capacity change fits, the first of several at the  *)
(* same distance; 0 for nearest_stop = None                                *)
nearest_stop(remaining_stops, vehicle, current_location, load) ==
    LET fits == {i \in 1..Len(remaining_stops) :
                    load + capacity_change(remaining_stops[i])
                        <= vehicle.capacity}
        dist(i) == distance_to(current_location, remaining_stops[i].location)
    IN IF fits = {} THEN 0
       ELSE CHOOSE i \in fits :
               \A j \in fits : dist(i) < dist(j) \/ (dist(i) = dist(j) /\ i <= j)

(* the while loop of _fallback_solver for one vehicle *)
RECURSIVE greedy_walk(_, _, _, _, _, _, _)
greedy_walk(remaining_stops, vehicle, current_location, load, route_stops, total_distance, total_time) ==
    LET k == nearest_stop(remaining_stops, vehicle, current_location, load)
        done == [remaining_stops |-> remaining_stops, route_stops |-> route_stops,
                 total_distance |-> total_distance, total_time |-> total_time]
    IN IF remaining_stops = <<>> \/ ~(load < vehicle.capacity)
          \/ k = 0
       THEN done
       ELSE LET nearest == remaining_stops[k]
                leg == mock_get_travel_time(current_location, nearest.location)
                time1 == total_time + leg.time + nearest.service_time
            IN greedy_walk(RemoveAt(remaining_stops, k), vehicle,
                           nearest.location,
                           IF nearest.stop_type = "pickup"
                           THEN load + 1
                           ELSE IF nearest.stop_type = "delivery"
                           THEN load - 1
                           ELSE load,
                           Append(route_stops,
                                  RouteStop(nearest, Len(route_stops),
                                            time1 - nearest.service_time)),
                           total_distance + leg.distance, time1)

(* the for loop of _fallback_solver over the vehicles *)
RECURSIVE fallback_vehicles(_, _, _, _)
fallback_vehicles(vehicles, remaining_stops, depot, results) ==
    IF vehicles = <<>> \/ remaining_stops = <<>> THEN results
    ELSE LET vehicle == Head(vehicles)
             w == greedy_walk(remaining_stops, vehicle, depot.location, 0, <<>>, 0, 0)
         IN fallback_vehicles(Tail(vehicles), w.remaining_stops, depot,
               IF w.route_stops = <<>> THEN results
               ELSE Append(results,
                           RouteResult(vehicle, w.route_stops, w.total_distance,
                                       w.total_time, <<>>)))

IsDepot(stop) == stop.stop_type = "depot"
NotDepot(stop) == stop.stop_type # "depot"

(* next((stop for stop in stops if ...), stops[0]) evaluates stops[0]      *)
(* before it searches, an IndexError on an empty list                      *)
_fallback_solver(vehicles, stops) ==
    IF stops = <<>> THEN [status |-> Raised, out |-> <<>>]
    ELSE LET depots == SelectSeq(stops, IsDepot)
             depot == IF depots # <<>> THEN depots[1] ELSE stops[1]
         IN [status |-> Returned,
             out |-> fallback_vehicles(vehicles, SelectSeq(stops, NotDepot),
                                       depot, <<>>)]

(* _group_pickup_deliveries: the (pickup index, delivery index) of every   *)
(* order id that has both; a later stop of the same order and type         *)
(* replaces an earlier one                                                 *)
_group_pickup_deliveries(stops) ==
    LET idx(o, ty) == {i \in 1..Len(stops) :
                          stops[i].order_id = o /\ stops[i].stop_type = ty}
        last(S) == CHOOSE i \in S : \A j \in S : j <= i
        ids == {stops[i].order_id : i \in 1..Len(stops)} \ {NoOrder}
    IN {<<last(idx(o, "pickup")), last(idx(o, "delivery"))>> :
           o \in {x \in ids : idx(x, "pickup") # {} /\ idx(x, "delivery") # {}}}

Perms(S) == {s \in [1..Cardinality(S) -> S] :
                \A i, j \in 1..Cardinality(S) : i # j => s[i] # s[j]}
Position(s, x) == CHOOSE i \in 1..Len(s) : s[i] = x

demand(stop) == IF stop.stop_type = "pickup" THEN 1
                ELSE IF stop.stop_type = "delivery" THEN 0 - 1 ELSE 0

(* the load after each node of the path that starts at node 1 *)
RECURSIVE Loads(_, _)
Loads(stops, path) ==
    IF path = <<>> THEN <<>>
    ELSE LET before == Loads(stops, SubSeq(path, 1, Len(path) - 1))
         IN Append(before,
                   (IF before = <<>> THEN 0 ELSE before[Len(before)])
                       + demand(stops[path[Len(path)]]))

(* the assignments the routing model of _solve_with_ortools admits: every  *)
(* node but node 1 on exactly one vehicle, a pickup on the vehicle of its  *)
(* delivery and before it, the load within 0..capacity.  Node 1 is the     *)
(* start and end of every vehicle and cannot be half of a pair.            *)
ortools_solutions(vehicles, stops) ==
    IF vehicles = <<>> \/ stops = <<>> THEN {}
    ELSE LET nodes == 2..Len(stops)
             pairs == _group_pickup_deliveries(stops)
             routes == UNION {Perms(S) : S \in SUBSET nodes}
             on(r, v, x) == \E i \in 1..Len(r[v]) : r[v][i] = x
         IN IF \E pd \in pairs : pd[1] = 1 \/ pd[2] = 1 THEN {}
            ELSE {r \in [1..Len(vehicles) -> routes] :
                    /\ \A x \in nodes :
                          Cardinality({v \in 1..Len(vehicles) : on(r, v, x)}) = 1
                    /\ \A pd \in pairs : \E v \in 1..Len(vehicles) :
                          /\ on(r, v, pd[1]) /\ on(r, v, pd[2])
                          /\ Position(r[v], pd[1]) < Position(r[v], pd[2])
                    /\ \A v \in 1..Len(vehicles) :
                          LET loads == Loads(stops, <<1>> \o r[v])
                          IN \A i \in 1..Len(loads) :
                                loads[i] >= 0 /\ loads[i] <= vehicles[v].capacity}

(* what the backend did with the model it was given *)
BackendOutcomes(vehicles, stops) ==
    {[kind |-> "throws", routes |-> <<>>], [kind |-> "no_solution", routes |-> <<>>]}
        \cup {[kind |-> "solution", routes |-> r] : r \in ortools_solutions(vehicles, stops)}

(* the while loop of _extract_solution along the nodes of one vehicle *)
RECURSIVE extract_walk(_, _, _, _, _, _, _)
extract_walk(path, k, stops, route_stops, total_distance, total_time, arrival_times) ==
    IF k > Len(path)
    THEN [route_stops |-> route_stops, total_distance |-> total_distance,
          total_time |-> total_time, arrival_times |-> arrival_times]
    ELSE LET stop == stops[path[k]]
             stops1 == IF path[k] # 1
                       THEN Append(route_stops, RouteStop(stop, Len(route_stops),
                                                          total_time))
                       ELSE route_stops
             leg == mock_get_travel_time(stop.location, stops[path[k + 1]].location)
         IN IF k < Len(path)
            THEN extract_walk(path, k + 1, stops, stops1,
                              total_distance + leg.distance,
                              total_time + leg.time + stop.service_time,
                              Append(arrival_times, total_time))
            ELSE extract_walk(path, k + 1, stops, stops1, total_distance, total_time,
                              Append(arrival_times, total_time))

RECURSIVE extract_vehicles(_, _, _, _, _)
extract_vehicles(vehicles, stops, routes, v, results) ==
    IF v > Len(vehicles) THEN results
    ELSE LET w == extract_walk(<<1>> \o routes[v], 1, stops, <<>>, 0, 0, <<>>)
         IN extract_vehicles(vehicles, stops, routes, v + 1,
               IF w.route_stops = <<>> THEN results
               ELSE Append(results,
                           RouteResult(vehicles[v], w.route_stops, w.total_distance,
                                       w.total_time, w.arrival_times)))

_extract_solution(vehicles, stops, routes) ==
    extract_vehicles(vehicles, stops, routes, 1, <<>>)

_solve_with_ortools(vehicles, stops, backend) ==
    IF backend.kind = "solution"
    THEN [status |-> Returned, out |-> _extract_solution(vehicles, stops, backend.routes)]
    ELSE IF backend.kind = "no_solution"
    THEN _fallback_solver(vehicles, stops)
    ELSE [status |-> Raised, out |-> <<>>]

(* ORToolsSolver.solve_vrp *)
solve_vrp(vehicles, stops, ortools, backend) ==
    IF ~ortools THEN _fallback_solver(vehicles, stops)
    ELSE LET r == _solve_with_ortools(vehicles, stops, backend)
         IN IF r.status = Raised
            THEN _fallback_solver(vehicles, stops)
            ELSE r

(* ------------------------------ actions -------------------------------- *)
NoBatchArgs == [called |-> FALSE, orders |-> <<>>, current_time |-> NoTime,
                max_highway_deviation_km |-> 0, clock |-> 0]
NoRouteArgs == [called |-> FALSE, batch_orders |-> <<>>, driver_location |-> NoDriver,
                algorithm |-> "heuristic"]
NoResult == [status |-> NotRun, out |-> <<>>]
default_tsp_2opt_iterations == 100
NoCounters == [i \in 0..MaxChain |-> 0]
NewTravel(redis) ==
    [redis_client |-> redis,
     default_ttl |-> cache_ttl_minutes,
     local_cache |-> [c \in 0..MaxChain |-> EmptyCache],
     redis_store |-> EmptyCache,
     cache_stats |-> [c \in 0..MaxChain |-> [hits |-> 0, misses |-> 0, errors |-> 0]],
     request_count |-> NoCounters,
     error_count |-> NoCounters,
     request_stats |-> [n \in ProviderNames |-> [success |-> 0, failure |-> 0]]]

NoVrpArgs == [called |-> FALSE, vehicles |-> <<>>, stops |-> <<>>, backend |-> "none"]
VrpDefaults ==
    /\ vrp_vehicles = <<>>
    /\ vrp_stops = <<>>
    /\ solver_ortools_available = FALSE
    /\ vrp_args = NoVrpArgs
    /\ vrp_result = NoResult

(* ------------------------- escrow_service/app.py ----------------------- *)
(* EscrowStatus *)
PENDING == "pending"
HELD == "held"
RELEASED == "released"
DISPUTED == "disputed"
REFUNDED == "refunded"

NoIntent == "none"             \* payment_intent_id=None
PaymentIntents == {NoIntent, "pi_1"}

(* MockStripeConnector.hold_funds: success of the hold; api_ok is what the *)
(* payment processor answers when it is asked                              *)
stripe_hold_funds(real, payment_intent_id, api_ok) ==
    IF real /\ payment_intent_id # NoIntent THEN api_ok ELSE TRUE

(* MockStripeConnector.release_funds *)
stripe_release_funds(real, api_ok) == IF real THEN api_ok ELSE TRUE

(* MockStripeConnector.refund_funds *)
stripe_refund_funds(real, payment_intent_id, api_ok) ==
    IF real /\ payment_intent_id # NoIntent THEN api_ok ELSE TRUE

(* EscrowStateMachine.create_escrow *)
create_escrow(escrow_id, payment_intent_id, clock) ==
    [id |-> escrow_id, status |-> PENDING, payment_intent_id |-> payment_intent_id,
     created_at |-> clock, held_at |-> NoTime, released_at |-> NoTime,
     disputed_at |-> NoTime, refunded_at |-> NoTime, metadata |-> {}]

(* what a call on an escrow gives: a ValueError, or a dict with success    *)
(* and the escrow as the call leaves it                                    *)
EscrowRaised(escrow) == [status |-> Raised, success |-> FALSE, escrow |-> escrow]
EscrowFailed(escrow) == [status |-> Returned, success |-> FALSE, escrow |-> escrow]
EscrowDone(escrow) == [status |-> Returned, success |-> TRUE, escrow |-> escrow]

(* EscrowStateMachine.hold_funds on an escrow it holds *)
hold_funds(escrow, real, api_ok, clock) ==
    IF escrow.status # PENDING THEN EscrowRaised(escrow)
    ELSE IF stripe_hold_funds(real, escrow.payment_intent_id, api_ok)
    THEN EscrowDone([escrow EXCEPT !.status = HELD, !.held_at = clock,
                                   !.metadata = @ \cup {"hold"}])
    ELSE EscrowFailed(escrow)

(* release_funds that also takes a disputed escrow *)
release_funds_FromDisputed(escrow, real, api_ok, clock) ==
    IF escrow.status \notin {HELD, DISPUTED} THEN EscrowRaised(escrow)
    ELSE IF stripe_release_funds(real, api_ok)
    THEN EscrowDone([escrow EXCEPT !.status = RELEASED, !.released_at = clock,
                                   !.metadata = @ \cup {"release"}])
    ELSE EscrowFailed(escrow)

(* EscrowStateMachine.release_funds *)
release_funds(escrow, real, api_ok, clock) ==
    IF escrow.status # HELD THEN EscrowRaised(escrow)
    ELSE IF stripe_release_funds(real, api_ok)
    THEN EscrowDone([escrow EXCEPT !.status = RELEASED, !.released_at = clock,
                                   !.metadata = @ \cup {"release"}])
    ELSE EscrowFailed(escrow)

(* EscrowStateMachine.dispute_funds: no payment processor step *)
dispute_funds(escrow, real, api_ok, clock) ==
    IF escrow.status # HELD THEN EscrowRaised(escrow)
    ELSE EscrowDone([escrow EXCEPT !.status = DISPUTED, !.disputed_at = clock,
                                   !.metadata = @ \cup {"dispute"}])

(* EscrowStateMachine.refund_funds *)
refund_funds(escrow, real, api_ok, clock) ==
    IF escrow.status \notin {HELD, DISPUTED} THEN EscrowRaised(escrow)
    ELSE IF stripe_refund_funds(real, escrow.payment_intent_id, api_ok)
    THEN EscrowDone([escrow EXCEPT !.status = REFUNDED, !.refunded_at = clock,
                                   !.metadata = @ \cup {"refund"}])
    ELSE EscrowFailed(escrow)

NoEscrowCall == [op |-> "none", escrow_id |-> 0, outcome |-> "none", before |-> <<>>]
(* the escrow service before any request *)
EscrowDefaults ==
    /\ use_real_stripe = FALSE
    /\ escrows = <<>>
    /\ escrow_call = NoEscrowCall

(* no tour method called yet *)
NoTourInput == [distance_matrix |-> <<>>, n |-> 0, stops |-> <<>>]
NoTourCall == [op |-> "none", start_index |-> 0, tour_in |-> <<>>, tour |-> <<>>,
               distance |-> 0, iterations |-> 0, improved |-> FALSE,
               stops |-> <<>>]

(* the batching and routing engines before any request *)
RoutingDefaults ==
    /\ max_batch_size = MaxBatchSize
    /\ sklearn_available = FALSE
    /\ kmeans_fit = NoFit
    /\ orders = <<>>
    /\ now = ClockStart
    /\ batch_args = NoBatchArgs
    /\ batches = NoResult
    /\ prev_batches = NoResult
    /\ batch_steps = NoSteps
    /\ tsp_iterations = default_tsp_2opt_iterations
    /\ ortools_available = FALSE
    /\ route_args = NoRouteArgs
    /\ route = NoResult
    /\ prev_route = NoResult
    /\ tour_input = NoTourInput
    /\ tour_call = NoTourCall

(* the request handlers, none of them inside a call *)
NoHandler == 0
Handlers == 1..MaxHandlers
IdleHandler == [pc |-> "idle", request |-> CHOOSE r \in TravelRequests : TRUE,
                result |-> NoTravelResult]
NoHandlers ==
    /\ handlers = [h \in Handlers |-> IdleHandler]
    /\ cache_lock = NoHandler

TravelDefaults ==
    /\ providers = <<MockProvider(1)>>
    /\ travel = NewTravel(FALSE)
    /\ tt_history = <<>>
    /\ NoHandlers

(* two calls with the same orders and the same reference time: an explicit *)
(* current_time, or none and an unchanged clock                            *)
SameBatchRequest(a, b) ==
    /\ a.called /\ b.called
    /\ a.orders = b.orders
    /\ a.current_time = b.current_time
    /\ a.max_highway_deviation_km = b.max_highway_deviation_km
    /\ (a.current_time = NoTime => a.clock = b.clock)

SameRouteRequest(a, b) ==
    /\ a.called /\ b.called
    /\ a.batch_orders = b.batch_orders
    /\ a.driver_location = b.driver_location

Init ==
    /\ endpoint \in {"batch", "route"}
    /\ max_batch_size \in IF endpoint = "batch" THEN 1..MaxBatchSize ELSE {MaxBatchSize}
    /\ sklearn_available \in IF endpoint = "batch" THEN BOOLEAN ELSE {FALSE}
    /\ kmeans_fit = NoFit
    /\ orders = <<>>
    /\ now = ClockStart
    /\ batch_args = NoBatchArgs
    /\ batches = NoResult
    /\ prev_batches = NoResult
    /\ batch_steps = NoSteps
    /\ tsp_iterations \in IF endpoint = "route"
                          THEN {1, default_tsp_2opt_iterations}
                          ELSE {default_tsp_2opt_iterations}
    /\ ortools_available \in IF endpoint = "route" THEN BOOLEAN ELSE {FALSE}
    /\ route_args = NoRouteArgs
    /\ route = NoResult
    /\ prev_route = NoResult
    /\ tour_input = NoTourInput
    /\ tour_call = NoTourCall
    /\ EscrowDefaults
    /\ TravelDefaults
    /\ VrpDefaults

(* the caller adds an order to its list. create_batches sorts the orders it *)
(* kept by (-priority, created_at), which tells the kinds apart, so the     *)
(* batching session lists the kinds in one order (west to east, which is    *)
(* not the sorted one); optimize_route keeps the order of the list, so the  *)
(* routing session lists them in every order                               *)
AddOrder ==
    /\ ~batch_args.called /\ ~route_args.called
    /\ Len(orders) < (IF endpoint = "batch" THEN MaxOrders ELSE MaxRouteOrders)
    /\ \E k \in OrderKinds :
          /\ endpoint = "batch" /\ orders # <<>>
                => orders[Len(orders)].pickup[1] <= k.pickup[1]
          /\ orders' = Append(orders, [id |-> Len(orders) + 1] @@ k)
    /\ UNCHANGED <<endpoint, escrow_vars, now, batch_vars, route_vars, travel_vars, vrp_vars>>

(* the clock advances; routing.py never reads it, so the routing session   *)
(* leaves it alone                                                         *)
Tick ==
    /\ endpoint # "route"
    /\ now < ClockStart + TickMinutes * (IF endpoint = "travel" THEN MaxTravelTicks
                                         ELSE MaxTicks)
    /\ now' = now + TickMinutes
    /\ UNCHANGED <<endpoint, escrow_vars, orders, batch_vars, route_vars, travel_vars, vrp_vars>>

(* BatchingEngine.create_batches(orders, current_time, max_highway_deviation_km); *)
(* a KMeans with a fixed random_state gives the same labels on the same data *)
CreateBatches ==
    /\ endpoint = "batch"
    /\ \E t \in RefTimes, dev \in Deviations :
          LET args == [called |-> TRUE, orders |-> orders, current_time |-> t,
                       max_highway_deviation_km |-> dev, clock |-> now]
              data == kmeans_data(orders, t, dev, max_batch_size,
                                  sklearn_available, now)
          IN \E fit \in kmeans_fits(data, kmeans_fit) :
                /\ kmeans_fit' = fit
                /\ batch_args' = args
                /\ batches' = create_batches(orders, t, dev, max_batch_size,
                                             sklearn_available, fit, now)
                /\ prev_batches' = IF SameBatchRequest(batch_args, args)
                                   THEN batches ELSE NoResult
                /\ batch_steps' = create_batches_steps(orders, t, dev, max_batch_size,
                                                       sklearn_available, fit, now)
    /\ UNCHANGED <<endpoint, escrow_vars, max_batch_size, sklearn_available, orders, now,
                   route_vars, travel_vars, vrp_vars>>

(* RoutingEngine.optimize_route on the batch made of the caller's orders *)
OptimizeRoute ==
    /\ endpoint = "route"
    /\ \E driver \in Drivers, algorithm \in Algorithms :
          LET args == [called |-> TRUE, batch_orders |-> orders,
                       driver_location |-> driver, algorithm |-> algorithm]
          IN /\ route_args' = args
             /\ route' = [status |-> Returned,
                          out |-> optimize_route(Batch(orders, 0, NoTime, now),
                                                 driver, algorithm, tsp_iterations,
                                                 ortools_available)]
             /\ prev_route' = IF SameRouteRequest(route_args, args)
                              THEN route ELSE NoResult
    /\ UNCHANGED <<endpoint, escrow_vars, orders, now, batch_vars, tsp_iterations,
                   ortools_available, tour_input, tour_call, travel_vars, vrp_vars>>

Next == AddOrder \/ Tick \/ CreateBatches \/ OptimizeRoute

Spec == Init /\ [][Next]_vars

(* ---------------------------- travel actions --------------------------- *)
InitTravel ==
    /\ endpoint = "travel"
    /\ EscrowDefaults
    /\ RoutingDefaults
    /\ VrpDefaults
    /\ providers \in ProviderChains
    /\ \E redis \in BOOLEAN : travel = NewTravel(redis)
    /\ tt_history = <<>>
    /\ NoHandlers

TravelEnvs(chain) ==
    [up : SUBSET ({chain[i].name : i \in 1..Len(chain)} \cap ApiNames), noise : Noise]

(* a caller asks the manager for a travel time *)
ManagerGetTravelTime ==
    /\ endpoint = "travel"
    /\ Len(tt_history) < MaxCalls
    /\ \E request \in TravelRequests, env \in TravelEnvs(providers) :
          LET r == manager_get_travel_time(travel, providers, request, env, now)
          IN /\ travel' = r.w
             /\ tt_history' = Append(tt_history,
                                [request |-> request, at |-> now,
                                 status |-> r.status, result |-> r.result,
                                 returned_by |-> r.returned_by, log |-> r.log])
    /\ UNCHANGED <<endpoint, escrow_vars, orders, now, batch_vars, route_vars, providers, handlers,
                   cache_lock, vrp_vars>>

NextTravel == Tick \/ ManagerGetTravelTime

SpecTravel == InitTravel /\ [][NextTravel]_vars

(* ----------------------------- solver actions -------------------------- *)
InitVrp ==
    /\ endpoint = "vrp"
    /\ RoutingDefaults
    /\ EscrowDefaults
    /\ TravelDefaults
    /\ vrp_vehicles = <<>>
    /\ vrp_stops = <<>>
    /\ solver_ortools_available \in BOOLEAN
    /\ vrp_args = NoVrpArgs
    /\ vrp_result = NoResult

AddVehicle ==
    /\ endpoint = "vrp"
    /\ ~vrp_args.called
    /\ Len(vrp_vehicles) < MaxVehicles
    /\ \E c \in Capacities :
          vrp_vehicles' = Append(vrp_vehicles,
                                 [id |-> Len(vrp_vehicles) + 1, capacity |-> c])
    /\ UNCHANGED <<endpoint, escrow_vars, orders, now, batch_vars, route_vars, travel_vars,
                   vrp_stops,
                   solver_ortools_available, vrp_args, vrp_result>>

AddStop ==
    /\ endpoint = "vrp"
    /\ ~vrp_args.called
    /\ Len(vrp_stops) < MaxStops
    /\ \E k \in StopKinds \ Range(vrp_stops) : vrp_stops' = Append(vrp_stops, k)
    /\ UNCHANGED <<endpoint, escrow_vars, orders, now, batch_vars, route_vars, travel_vars,
                   vrp_vehicles,
                   solver_ortools_available, vrp_args, vrp_result>>

(* ORToolsSolver.solve_vrp(vrp_vehicles, vrp_stops) *)
SolveVrp ==
    /\ endpoint = "vrp"
    /\ \E backend \in IF solver_ortools_available
                       THEN BackendOutcomes(vrp_vehicles, vrp_stops)
                       ELSE {[kind |-> "absent", routes |-> <<>>]} :
          /\ vrp_args' = [called |-> TRUE, vehicles |-> vrp_vehicles,
                          stops |-> vrp_stops, backend |-> backend.kind]
          /\ vrp_result' = solve_vrp(vrp_vehicles, vrp_stops,
                                     solver_ortools_available, backend)
    /\ UNCHANGED <<endpoint, escrow_vars, orders, now, batch_vars, route_vars, travel_vars,
                   vrp_vehicles,
                   vrp_stops, solver_ortools_available>>

NextVrp == AddVehicle \/ AddStop \/ SolveVrp

SpecVrp == InitVrp /\ [][NextVrp]_vars

(* a deployment without the constraint backend (ORTOOLS_AVAILABLE False in *)
(* solver.py): every solve_vrp call is answered by _fallback_solver        *)
InitGreedy ==
    /\ InitVrp
    /\ ~solver_ortools_available

SpecGreedy == InitGreedy /\ [][NextVrp]_vars

(* ------------- concurrent get_travel_time calls on one cache ----------- *)
(* request handlers running in threads call get_travel_time of one         *)
(* provider; a handler's pc is the statement of travel_time.py it is at:   *)
(* get_wait and set_wait before "with self._lock", get_redis and set_redis *)
(* inside redis_client.get / setex, get_local and set_local at the         *)
(* local_cache statements, calculate inside _calculate_travel_time         *)
InitLock ==
    /\ endpoint = "lock"
    /\ EscrowDefaults
    /\ RoutingDefaults
    /\ VrpDefaults
    /\ providers \in {<<MockProvider(1)>>, <<OSRMProvider(1)>>}
    /\ \E redis \in BOOLEAN : travel = NewTravel(redis)
    /\ tt_history = <<>>
    /\ NoHandlers

LockUnchanged ==
    UNCHANGED <<endpoint, escrow_vars, orders, now, batch_vars, route_vars, providers, tt_history,
                vrp_vars>>

(* get_travel_time is entered: self.request_count += 1 *)
BeginCall(h) ==
    /\ endpoint = "lock"
    /\ handlers[h].pc = "idle"
    /\ travel.request_count[1] < MaxCalls
    /\ \E request \in TravelRequests :
          handlers' = [handlers EXCEPT ![h] = [pc |-> "get_wait", request |-> request,
                                               result |-> NoTravelResult]]
    /\ travel' = [travel EXCEPT !.request_count[1] = @ + 1]
    /\ UNCHANGED cache_lock
    /\ LockUnchanged

(* TravelTimeCache.get: with self._lock *)
AcquireForGet(h) ==
    /\ handlers[h].pc = "get_wait"
    /\ cache_lock = NoHandler
    /\ cache_lock' = h
    /\ handlers' = [handlers EXCEPT ![h].pc = IF travel.redis_client THEN "get_redis"
                                              ELSE "get_local"]
    /\ UNCHANGED travel
    /\ LockUnchanged

(* redis_client.get answers: a hit returns from inside the with block, a   *)
(* miss goes on to the local cache                                         *)
RedisGetReturns(h) ==
    /\ handlers[h].pc = "get_redis"
    /\ LET g == TravelTimeCache_get(travel, providers[1].cache, handlers[h].request, now)
           e == travel.redis_store[_generate_cache_key(handlers[h].request)]
       IN IF e.present /\ now < e.expiry
          THEN /\ travel' = g.w
               /\ handlers' = [handlers EXCEPT ![h] = IdleHandler]
               /\ cache_lock' = NoHandler
          ELSE /\ handlers' = [handlers EXCEPT ![h].pc = "get_local"]
               /\ UNCHANGED <<travel, cache_lock>>
    /\ LockUnchanged

(* the local_cache lookup of TravelTimeCache.get, then the lock is released *)
LocalGet(h) ==
    /\ handlers[h].pc = "get_local"
    /\ LET g == TravelTimeCache_get(travel, providers[1].cache, handlers[h].request, now)
       IN /\ travel' = g.w
          /\ handlers' = [handlers EXCEPT ![h] = IF g.hit THEN IdleHandler
                                                  ELSE [@ EXCEPT !.pc = "calculate"]]
    /\ cache_lock' = NoHandler
    /\ LockUnchanged

(* _calculate_travel_time returns or raises; a raise is counted and        *)
(* answered with _fallback_calculation                                     *)
CalculateReturns(h) ==
    /\ handlers[h].pc = "calculate"
    /\ \E env \in TravelEnvs(providers) :
          LET calc == _calculate_travel_time(providers[1], handlers[h].request, env)
          IN IF calc.raised
             THEN /\ travel' = [travel EXCEPT !.error_count[1] = @ + 1]
                  /\ handlers' = [handlers EXCEPT ![h] = IdleHandler]
             ELSE /\ handlers' = [handlers EXCEPT
                                     ![h] = [@ EXCEPT !.pc = "set_wait",
                                                      !.result = [calc.result EXCEPT
                                                          !.calculated_at = now]]]
                  /\ UNCHANGED travel
    /\ UNCHANGED cache_lock
    /\ LockUnchanged

(* TravelTimeCache.set: with self._lock *)
AcquireForSet(h) ==
    /\ handlers[h].pc = "set_wait"
    /\ cache_lock = NoHandler
    /\ cache_lock' = h
    /\ handlers' = [handlers EXCEPT ![h].pc = IF travel.redis_client THEN "set_redis"
                                              ELSE "set_local"]
    /\ UNCHANGED travel
    /\ LockUnchanged

(* redis_client.setex answers, or the local_cache is written and pruned;   *)
(* then the lock is released                                               *)
SetReturns(h) ==
    /\ handlers[h].pc \in {"set_redis", "set_local"}
    /\ travel' = TravelTimeCache_set(travel, providers[1].cache, handlers[h].request,
                                     handlers[h].result, NoTime, now)
    /\ handlers' = [handlers EXCEPT ![h] = IdleHandler]
    /\ cache_lock' = NoHandler
    /\ LockUnchanged

NextLock ==
    \E h \in Handlers :
        \/ BeginCall(h)
        \/ AcquireForGet(h)
        \/ RedisGetReturns(h)
        \/ LocalGet(h)
        \/ CalculateReturns(h)
        \/ AcquireForSet(h)
        \/ SetReturns(h)

SpecLock == InitLock /\ [][NextLock]_vars

(* ------------------- merge_small_batches called alone ------------------ *)
InitMerge ==
    /\ endpoint = "merge"
    /\ max_batch_size \in 1..MaxBatchSize
    /\ sklearn_available = FALSE
    /\ kmeans_fit = NoFit
    /\ orders = <<>>
    /\ now = ClockStart
    /\ batch_args = NoBatchArgs
    /\ batches = NoResult
    /\ prev_batches = NoResult
    /\ batch_steps = NoSteps
    /\ tsp_iterations = default_tsp_2opt_iterations
    /\ ortools_available = FALSE
    /\ route_args = NoRouteArgs
    /\ route = NoResult
    /\ prev_route = NoResult
    /\ tour_input = NoTourInput
    /\ tour_call = NoTourCall
    /\ EscrowDefaults
    /\ TravelDefaults
    /\ VrpDefaults

(* a batch of size orders of one kind, numbered from first_id *)
MergeBatch(kind, size, first_id) ==
    [k \in 1..size |-> [id |-> first_id + k - 1] @@ kind]

(* the lists of batches handed to merge_small_batches: up to               *)
(* MaxMergeBatches batches, each of one kind, none larger than mbs         *)
MergeInputs(mbs) ==
    LET Shapes == {sh \in OrderKinds \X MergeSizes : sh[2] <= mbs}
        Lists == UNION {[1..n -> Shapes] : n \in 0..MaxMergeBatches}
    IN {[j \in 1..Len(l) |-> MergeBatch(l[j][1], l[j][2], 10 * j)] : l \in Lists}

(* BatchingEngine.merge_small_batches(batches) on a list of batches; the   *)
(* method keeps nothing from one call to the next, so a session calls it   *)
(* once                                                                    *)
MergeSmallBatches ==
    /\ endpoint = "merge"
    /\ batch_steps = NoSteps
    /\ \E bs \in MergeInputs(max_batch_size) :
          batch_steps' = [NoSteps EXCEPT
                             !.balanced_batches = bs,
                             !.final_batches = merge_small_batches(bs, max_batch_size)]
    /\ UNCHANGED <<endpoint, escrow_vars, orders, now, max_batch_size, sklearn_available,
                   kmeans_fit, batch_args, batches, prev_batches, route_vars,
                   travel_vars, vrp_vars>>

NextMerge == MergeSmallBatches

SpecMerge == InitMerge /\ [][NextMerge]_vars

(* ------------------ the tour methods of RoutingEngine ------------------ *)
(* the distance matrices create_distance_matrix can give for n points:     *)
(* symmetric, zero on the diagonal, legs of 0..MaxLeg km                   *)
TourSizes == 2..4
DistanceMatrices(n) ==
    LET pairs == {pr \in (0..(n - 1)) \X (0..(n - 1)) : pr[1] < pr[2]}
    IN {[i \in 0..(n - 1) |-> [j \in 0..(n - 1) |->
            IF i = j THEN 0
            ELSE IF i < j THEN f[<<i, j>>] ELSE f[<<j, i>>]]] :
        f \in [pairs -> 0..MaxLeg]}

(* the lists of RouteStops heuristic_route can hand to                     *)
(* enforce_pickup_before_delivery: the pickups and deliveries of up to     *)
(* MaxRouteOrders orders in any tour order, numbered along the tour        *)
TourStopKinds ==
    {[order_id |-> o, stop_type |-> ty] :
        o \in 1..MaxRouteOrders, ty \in {"pickup", "delivery"}}
TourStopLists ==
    {[i \in 1..Len(l) |-> [order_id |-> l[i].order_id, stop_type |-> l[i].stop_type,
                           point |-> <<l[i].order_id, 0>>, sequence |-> i - 1,
                           estimated_arrival_minutes |-> 0]] :
        l \in UNION {{q \in [1..m -> TourStopKinds] :
                         \A i, j \in 1..m : i # j => q[i] # q[j]} :
                     m \in 1..(2 * MaxRouteOrders)}}

(* the tours over n points that start and end at point 0 *)
ClosedTours(n) ==
    {<<0>> \o q \o <<0>> :
        q \in {r \in [1..(n - 1) -> 1..(n - 1)] :
                  \A i, j \in 1..(n - 1) : i # j => r[i] # r[j]}}

InitTour ==
    /\ endpoint = "tour"
    /\ max_batch_size = MaxBatchSize
    /\ sklearn_available = FALSE
    /\ kmeans_fit = NoFit
    /\ orders = <<>>
    /\ now = ClockStart
    /\ batch_args = NoBatchArgs
    /\ batches = NoResult
    /\ prev_batches = NoResult
    /\ batch_steps = NoSteps
    /\ tsp_iterations \in {0, 1, default_tsp_2opt_iterations}
    /\ ortools_available = FALSE
    /\ route_args = NoRouteArgs
    /\ route = NoResult
    /\ prev_route = NoResult
    /\ tour_input \in
          UNION {{[distance_matrix |-> dm, n |-> n, stops |-> <<>>] :
                     dm \in DistanceMatrices(n)} : n \in TourSizes}
          \cup {[NoTourInput EXCEPT !.stops = l] : l \in TourStopLists}
    /\ tour_call = NoTourCall
    /\ EscrowDefaults
    /\ TravelDefaults
    /\ VrpDefaults

TourUnchanged ==
    UNCHANGED <<endpoint, escrow_vars, orders, now, batch_vars, tsp_iterations, ortools_available,
                route_args, route, prev_route, tour_input, travel_vars, vrp_vars>>

(* RoutingEngine.nearest_neighbor_tsp(distance_matrix, start_index); the   *)
(* methods keep nothing from one call to the next, so a session calls one  *)
NearestNeighborTsp ==
    /\ endpoint = "tour"
    /\ tour_call = NoTourCall
    /\ tour_input.n >= 2
    /\ \E start_index \in 0..(tour_input.n - 1) :
          LET r == nearest_neighbor_tsp(tour_input.distance_matrix, tour_input.n,
                                        start_index)
          IN tour_call' = [NoTourCall EXCEPT !.op = "nearest_neighbor_tsp",
                                             !.start_index = start_index,
                                             !.tour = r[1], !.distance = r[2]]
    /\ TourUnchanged

(* RoutingEngine.two_opt_improvement(tour, distance_matrix) *)
TwoOptImprovement ==
    /\ endpoint = "tour"
    /\ tour_call = NoTourCall
    /\ tour_input.n >= 2
    /\ \E tour \in ClosedTours(tour_input.n) :
          LET r == two_opt_improvement(tour, tour_input.distance_matrix,
                                       tsp_iterations)
              w == two_opt_loop(tour, tour_input.distance_matrix, tsp_iterations)
          IN tour_call' = [NoTourCall EXCEPT !.op = "two_opt_improvement",
                                             !.tour_in = tour,
                                             !.tour = r[1], !.distance = r[2],
                                             !.iterations = w.iterations,
                                             !.improved = w.improved]
    /\ TourUnchanged

(* RoutingEngine.enforce_pickup_before_delivery(stops) *)
EnforcePickupBeforeDelivery ==
    /\ endpoint = "tour"
    /\ tour_call = NoTourCall
    /\ tour_input.stops # <<>>
    /\ tour_call' = [NoTourCall EXCEPT
                        !.op = "enforce_pickup_before_delivery",
                        !.stops = enforce_pickup_before_delivery(tour_input.stops)]
    /\ TourUnchanged

NextTour == NearestNeighborTsp \/ TwoOptImprovement \/ EnforcePickupBeforeDelivery

SpecTour == InitTour /\ [][NextTour]_vars

(* --------------------------- escrow actions ---------------------------- *)
InitEscrow ==
    /\ endpoint = "escrow"
    /\ RoutingDefaults
    /\ TravelDefaults
    /\ VrpDefaults
    /\ use_real_stripe \in BOOLEAN
    /\ escrows = <<>>
    /\ escrow_call = NoEscrowCall

EscrowUnchanged ==
    UNCHANGED <<endpoint, orders, now, batch_vars, route_vars, travel_vars, vrp_vars,
                use_real_stripe>>

(* EscrowStateMachine.create_escrow(request) *)
CreateEscrow ==
    /\ endpoint = "escrow"
    /\ Len(escrows) < MaxEscrows
    /\ \E intent \in PaymentIntents :
          escrows' = Append(escrows, create_escrow(Len(escrows) + 1, intent, now))
    /\ escrow_call' = [op |-> "create_escrow", escrow_id |-> Len(escrows) + 1,
                       outcome |-> "success", before |-> escrows]
    /\ EscrowUnchanged

(* a call of one of the four transitions on escrow_id: a ValueError when   *)
(* the id is not in escrows, else what the method does to the escrow       *)
EscrowCall(op, escrow_id, r) ==
    /\ endpoint = "escrow"
    /\ escrows' = IF escrow_id \in 1..Len(escrows)
                  THEN [escrows EXCEPT ![escrow_id] = r.escrow]
                  ELSE escrows
    /\ escrow_call' = [op |-> op, escrow_id |-> escrow_id,
                       outcome |-> IF escrow_id \notin 1..Len(escrows)
                                      \/ r.status = Raised THEN "raised"
                                   ELSE IF r.success THEN "success" ELSE "failed",
                       before |-> escrows]
    /\ EscrowUnchanged

(* the escrow a call finds under an id, any record when there is none *)
EscrowAt(escrow_id) ==
    IF escrow_id \in 1..Len(escrows) THEN escrows[escrow_id]
    ELSE create_escrow(escrow_id, NoIntent, now)

HoldFunds ==
    \E escrow_id \in 1..MaxEscrows, api_ok \in BOOLEAN :
        EscrowCall("hold_funds", escrow_id,
                   hold_funds(EscrowAt(escrow_id), use_real_stripe, api_ok, now))

ReleaseFunds ==
    \E escrow_id \in 1..MaxEscrows, api_ok \in BOOLEAN :
        EscrowCall("release_funds", escrow_id,
                   release_funds(EscrowAt(escrow_id), use_real_stripe, api_ok, now))

DisputeFunds ==
    \E escrow_id \in 1..MaxEscrows, api_ok \in BOOLEAN :
        EscrowCall("dispute_funds", escrow_id,
                   dispute_funds(EscrowAt(escrow_id), use_real_stripe, api_ok, now))

RefundFunds ==
    \E escrow_id \in 1..MaxEscrows, api_ok \in BOOLEAN :
        EscrowCall("refund_funds", escrow_id,
                   refund_funds(EscrowAt(escrow_id), use_real_stripe, api_ok, now))

NextEscrow ==
    \/ CreateEscrow \/ HoldFunds \/ ReleaseFunds \/ DisputeFunds \/ RefundFunds
    \/ (endpoint = "escrow" /\ Tick)

SpecEscrow == InitEscrow /\ [][NextEscrow]_vars

(* -------------------------- properties: solver ------------------------- *)
(* C5: solve_vrp returns a list of RouteResults and does not raise, for    *)
(* every list of vehicles and of stops, whatever the backend does          *)
C5_SolveVrpNeverRaises ==
    vrp_args.called => vrp_result.status = Returned

(* ------------------------- properties: routing ------------------------- *)
RouteStops == route.out.stops
RoutedOrders == route_args.batch_orders

(* C1: in the Route the heuristic path returns, every order id present has *)
(* its pickup stop at a strictly smaller sequence position than its        *)
(* delivery stop                                                           *)
C1_PickupBeforeDelivery ==
    route.status = Returned =>
        \A i, j \in 1..Len(RouteStops) :
            (/\ RouteStops[i].order_id = RouteStops[j].order_id
             /\ RouteStops[i].stop_type = "pickup"
             /\ RouteStops[j].stop_type = "delivery")
            => RouteStops[i].sequence < RouteStops[j].sequence

(* a route from a driver position whose nearest stop is a delivery, so the *)
(* tour reaches that delivery before its pickup                            *)
C1_Witness ==
    /\ route.status = Returned
    /\ route_args.driver_location = <<20, 5>>
    /\ Len(RoutedOrders) >= 2
    /\ \E i \in 1..Len(RoutedOrders) : RoutedOrders[i].delivery = <<30, 0>>
    /\ route.out.optimization_algorithm = "heuristic_2opt"

(* C9: a batch of n orders gives a Route of exactly 2n stops, one pickup   *)
(* and one delivery per order, the stop at list index i has sequence i;    *)
(* the empty batch gives no stops, distance 0 and duration 0               *)
C9_RouteShape ==
    route.status = Returned =>
        LET n == Len(RoutedOrders)
        IN /\ Len(RouteStops) = 2 * n
           /\ \A k \in 1..n : \A ty \in {"pickup", "delivery"} :
                  Cardinality({i \in 1..Len(RouteStops) :
                                  /\ RouteStops[i].order_id = RoutedOrders[k].id
                                  /\ RouteStops[i].stop_type = ty}) = 1
           /\ \A i \in 1..Len(RouteStops) : RouteStops[i].sequence = i - 1
           /\ n = 0 => /\ RouteStops = <<>>
                       /\ route.out.total_distance_km[1] = 0
                       /\ route.out.estimated_duration_minutes = 0

C9_Witness ==
    /\ route.status = Returned
    /\ Len(RoutedOrders) = MaxRouteOrders
    /\ Len(RouteStops) = 2 * MaxRouteOrders
    /\ route.out.total_distance_km[1] > 0

C9_WitnessEmpty ==
    /\ route.status = Returned
    /\ RoutedOrders = <<>>

(* ------------------------- properties: batching ------------------------ *)
WindowStart(a) ==
    (IF a.current_time = NoTime THEN a.clock ELSE a.current_time)
        - batch_window_minutes
TimeEligible(a) == {i \in 1..Len(a.orders) : a.orders[i].created_at >= WindowStart(a)}
FarFromCorridor(o, km) ==
    /\ haversine_distance(o.pickup, get_highway_reference_point) > km
    /\ haversine_distance(o.delivery, get_highway_reference_point) > km
BatchedOrders(b) == UNION {Range(b.out[i].orders) : i \in 1..Len(b.out)}

(* C2: every batch create_batches returns holds at least 1 and at most     *)
(* max_batch_size orders                                                   *)
C2_BatchSizeBound ==
    batches.status = Returned =>
        \A i \in 1..Len(batches.out) :
            /\ Len(batches.out[i].orders) >= 1
            /\ Len(batches.out[i].orders) <= max_batch_size

(* more orders than max_batch_size were batched, into several batches, one *)
(* of them full                                                            *)
C2_Witness ==
    /\ batches.status = Returned
    /\ Len(batches.out) >= 2
    /\ max_batch_size >= 4
    /\ Len(batch_args.orders) > max_batch_size
    /\ \E i \in 1..Len(batches.out) : Len(batches.out[i].orders) = max_batch_size

(* C6: when some order passes the time-window filter and every such order  *)
(* has both ends farther than the deviation limit from the corridor point, *)
(* create_batches still returns a non-empty list of batches                *)
C6_CorridorFallbackNonEmpty ==
    (/\ batch_args.called
     /\ TimeEligible(batch_args) # {}
     /\ \A i \in TimeEligible(batch_args) :
           FarFromCorridor(batch_args.orders[i], batch_args.max_highway_deviation_km))
    => /\ batches.status = Returned
       /\ batches.out # <<>>

(* C7: an order is in a returned batch only if it was created no earlier   *)
(* than the reference time minus batch_window_minutes; an order created    *)
(* exactly then keeps the result from being empty; with no such order the  *)
(* result is the empty list                                                *)
C7_TimeWindow ==
    batch_args.called =>
        /\ batches.status = Returned =>
              \A o \in BatchedOrders(batches) :
                  o.created_at >= WindowStart(batch_args)
        /\ TimeEligible(batch_args) = {} =>
              (batches.status = Returned /\ batches.out = <<>>)
        /\ (/\ batches.status = Returned
            /\ \E i \in 1..Len(batch_args.orders) :
                  batch_args.orders[i].created_at = WindowStart(batch_args))
           => batches.out # <<>>

(* a call that dropped an order as too old and batched one created exactly *)
(* at the start of the window                                              *)
C7_Witness ==
    /\ batches.status = Returned
    /\ \E o \in BatchedOrders(batches) : o.created_at = WindowStart(batch_args)
    /\ batch_args.current_time = NoTime
    /\ Len(batch_args.orders) >= 2

C7_WitnessDropped ==
    /\ batches.status = Returned
    /\ batches.out # <<>>
    /\ \E i \in 1..Len(batch_args.orders) :
          batch_args.orders[i].created_at < WindowStart(batch_args)

(* C8: a second call with the same inputs returns what the first returned: *)
(* create_batches the same batches with the same members in the same       *)
(* order, heuristic_route the same (order id, stop type) sequence and the  *)
(* same total distance                                                     *)
StopKeys(r) == [i \in 1..Len(r.out.stops) |->
                   <<r.out.stops[i].order_id, r.out.stops[i].stop_type>>]
C8_WitnessRoute ==
    /\ prev_route.status = Returned
    /\ Len(route.out.stops) >= 4

(* ----------------------- properties: travel time ----------------------- *)
ProviderCalls == Flatten([k \in 1..Len(tt_history) |-> tt_history[k].log])
ManagerCalls == 1..Len(tt_history)
Unusable(c) == c.status = Raised \/ IsFallback(c.result.provider)

(* C3: the manager calls its providers in list order, each at most once;   *)
(* every call before the last one it made gave a fallback-tagged result or *)
(* raised, so the first result without the fallback tag is returned and no *)
(* later provider is called; a fallback-tagged result reaches the caller   *)
(* only as the result of the last provider of the list                     *)
C3_ProviderChainOrder ==
    \A k \in ManagerCalls :
        LET c == tt_history[k]
            n == Len(providers)
            m == Cardinality({j \in 1..Len(c.log) : c.log[j].provider # AdHoc})
        IN /\ m <= n
           /\ \A j \in 1..m : c.log[j].provider = j
           /\ Len(c.log) > m => (m = n /\ Len(c.log) = n + 1)
           /\ \A j \in 1..(Len(c.log) - 1) : Unusable(c.log[j])
           /\ c.status = Returned =>
                 /\ c.result = c.log[Len(c.log)].result
                 /\ c.returned_by = c.log[Len(c.log)].provider
                 /\ IsFallback(c.result.provider) => c.returned_by = n

(* one request answered by the second provider after the first fell back,  *)
(* another answered by the first provider with the second never called     *)
C3_Witness ==
    \E k1, k2 \in ManagerCalls :
        /\ Len(providers) = 2
        /\ Len(tt_history[k1].log) = 2
        /\ IsFallback(tt_history[k1].log[1].result.provider)
        /\ tt_history[k1].result.provider = "mock"
        /\ Len(tt_history[k2].log) = 1
        /\ tt_history[k2].result.provider = "osrm"

(* a fallback estimate returned to the caller by the last provider *)
C3_WitnessFinalFallback ==
    \E k \in ManagerCalls :
        /\ Len(tt_history[k].log) = 2
        /\ tt_history[k].status = Returned
        /\ tt_history[k].result.provider = "osrm_fallback"

(* C4: when a provider's get_travel_time returned a result that is in its  *)
(* cache and the same provider is called again with the same request       *)
(* before that entry expires, the second call returns cached = true with   *)
(* the duration and the distance of the first call                         *)
C4_CacheIdempotence ==
    \A a, b \in 1..Len(ProviderCalls) :
        LET x == ProviderCalls[a]
            y == ProviderCalls[b]
        IN (/\ a < b
            /\ x.provider = y.provider /\ x.provider # AdHoc
            /\ x.request = y.request
            /\ x.status = Returned
            /\ x.entry_expiry # NoTime
            /\ y.at < x.entry_expiry)
           => /\ y.status = Returned
              /\ y.result.cached
              /\ y.result.duration_seconds = x.result.duration_seconds
              /\ y.result.distance_meters = x.result.distance_meters

(* a computed result served again from the cache a tick later *)
C4_Witness ==
    \E a, b \in 1..Len(ProviderCalls) :
        /\ a < b
        /\ ProviderCalls[a].provider = ProviderCalls[b].provider
        /\ ProviderCalls[a].request = ProviderCalls[b].request
        /\ ProviderCalls[a].calc = "computed"
        /\ ~ProviderCalls[a].result.cached
        /\ ProviderCalls[a].at < ProviderCalls[b].at
        /\ ProviderCalls[b].at < ProviderCalls[a].entry_expiry
        /\ ProviderCalls[b].calc = "hit"

(* C10: no get_travel_time call of a provider or of the manager raises,    *)
(* and a provider whose calculation raised returns its haversine estimate  *)
(* under the tag <provider>_fallback with its error count one higher       *)
C10_NeverRaises ==
    /\ \A k \in 1..Len(tt_history) : tt_history[k].status = Returned
    /\ \A j \in 1..Len(ProviderCalls) :
          LET c == ProviderCalls[j]
          IN /\ c.status = Returned
             /\ c.calc = "raised" =>
                   /\ c.result = _fallback_calculation(c.name, c.request).result
                   /\ c.errors_after = c.errors_before + 1
(* ---------------------- properties: batching, steps -------------------- *)
(* C11: create_batches does not raise, whatever the order list and for     *)
(* every max_batch_size >= 1, max_batch_size 1 and 2 with more eligible    *)
(* orders than max_batch_size included; its only failure is an empty list  *)
C11_CreateBatchesNeverRaises ==
    (batch_args.called /\ max_batch_size >= 1) => batches.status # Raised

(* C14: every batch create_batches returns carries the duration estimate   *)
(* max(prep time of its orders) + (5 + 8 + 12) minutes per order           *)
C14_BatchDurationEstimate ==
    batches.status = Returned =>
        \A i \in 1..Len(batches.out) :
            LET os == batches.out[i].orders
            IN batches.out[i].estimated_duration_minutes =
                  MaxSeq([k \in 1..Len(os) |-> os[k].estimated_prep_time_minutes])
                      + 5 * Len(os) + 8 * Len(os) + 12 * Len(os)

(* ceil(count / (max_batch_size / 2)), the halves not rounded *)
CeilOfHalves(count, mbs) == (2 * count + mbs - 1) \div mbs

(* C15 as stated: the number of clusters create_batches asks the           *)
(* clustering step for is ceil(count / (max_batch_size / 2))               *)
C15_ClusterCountCeil ==
    batch_steps.clustered =>
        batch_steps.n_clusters = CeilOfHalves(Len(batch_steps.remaining), max_batch_size)

(* C15 amended: with at most max_batch_size orders left create_batches     *)
(* asks for 1 cluster; with more orders left and max_batch_size >= 2 it    *)
(* asks for floor(count / floor(max_batch_size / 2)) clusters; with more   *)
(* orders left and max_batch_size = 1 it raises before it clusters         *)
C15_ClusterCount ==
    batch_args.called =>
        LET count == Len(batch_steps.remaining)
        IN /\ (count >= 1 /\ count <= max_batch_size) =>
                  (batch_steps.clustered /\ batch_steps.n_clusters = 1)
           /\ (count > max_batch_size /\ max_batch_size >= 2) =>
                  /\ batch_steps.clustered
                  /\ batch_steps.n_clusters = count \div (max_batch_size \div 2)
           /\ (count > max_batch_size /\ max_batch_size = 1) =>
                  (~batch_steps.clustered /\ batches.status = Raised)

(* more orders left than max_batch_size, not a multiple of its half: the   *)
(* floor and the ceiling differ                                            *)
C15_Witness ==
    /\ batch_steps.clustered
    /\ Len(batch_steps.remaining) > max_batch_size
    /\ batch_steps.n_clusters >= 2
    /\ batch_steps.n_clusters
          # CeilOfHalves(Len(batch_steps.remaining), max_batch_size)

(* the centroid of a cluster (the mean of the pickup and delivery points   *)
(* of its orders) is within km of the corridor reference point             *)
CentroidWithin(cluster, km) ==
    LET n == 2 * Len(cluster)
        hp == get_highway_reference_point
        sx == SumSeq([k \in 1..Len(cluster) |->
                        cluster[k].pickup[1] + cluster[k].delivery[1]])
        sy == SumSeq([k \in 1..Len(cluster) |->
                        cluster[k].pickup[2] + cluster[k].delivery[2]])
    IN Abs(sx - n * hp[1]) + Abs(sy - n * hp[2]) <= km * n

(* C16: a cluster whose centroid is farther than max_highway_deviation_km  *)
(* from the corridor point is left out of batching exactly when some other *)
(* cluster has its centroid within the limit; when no cluster is within    *)
(* the limit all clusters are kept                                         *)
C16_ClusterDeviation ==
    batch_steps.clustered =>
        LET km == batch_args.max_highway_deviation_km
            cl == batch_steps.clusters
            SomeWithin == \E i \in 1..Len(cl) : CentroidWithin(cl[i], km)
            Kept(c) == CentroidWithin(c, km) \/ ~SomeWithin
        IN /\ batch_steps.valid_clusters = SelectSeq(cl, Kept)
           /\ \A i \in 1..Len(cl) :
                 \A o \in Range(cl[i]) : o \in BatchedOrders(batches) <=> Kept(cl[i])

(* a far cluster left out next to a cluster within the limit *)
C16_Witness ==
    /\ batch_steps.clustered
    /\ Len(batch_steps.valid_clusters) >= 1
    /\ Len(batch_steps.valid_clusters) < Len(batch_steps.clusters)
    /\ batches.out # <<>>

(* several clusters, none within the limit, all kept *)
C16_WitnessAllKept ==
    /\ batch_steps.clustered
    /\ Len(batch_steps.clusters) >= 2
    /\ \A i \in 1..Len(batch_steps.clusters) :
          ~CentroidWithin(batch_steps.clusters[i], batch_args.max_highway_deviation_km)
    /\ batch_steps.valid_clusters = batch_steps.clusters

(* final is batches with some pairs of neighbours joined, every joined     *)
(* pair made of two batches of size <= 2 whose sizes add up to at most mbs *)
(* and whose centroids are within merge_threshold_km                       *)
RECURSIVE MergesAllowed(_, _, _, _, _)
MergesAllowed(bs, final, i, j, mbs) ==
    IF i > Len(bs) THEN j > Len(final)
    ELSE IF j > Len(final) THEN FALSE
    ELSE IF final[j] = bs[i] THEN MergesAllowed(bs, final, i + 1, j + 1, mbs)
    ELSE /\ i + 1 <= Len(bs)
         /\ final[j] = bs[i] \o bs[i + 1]
         /\ Len(bs[i]) <= 2
         /\ Len(bs[i + 1]) <= 2
         /\ Len(bs[i]) + Len(bs[i + 1]) <= mbs
         /\ CenterDistanceLeq(calculate_cluster_center(bs[i]),
                              calculate_cluster_center(bs[i + 1]), merge_threshold_km)
         /\ MergesAllowed(bs, final, i + 2, j + 1, mbs)

(* C17: merge_small_batches joins two consecutive batches only when both   *)
(* have size <= 2, their sizes add up to at most max_batch_size and their  *)
(* centroids are within 10 km; a batch is part of at most one merge        *)
C17_MergeOnlySmall ==
    MergesAllowed(batch_steps.balanced_batches, batch_steps.final_batches, 1, 1,
                  max_batch_size)

(* ---------------------- properties: routing, fallback ------------------ *)
(* the route a plain heuristic run returns for the request *)
PlainHeuristicRun(a) ==
    optimize_route(Batch(a.batch_orders, 0, NoTime, now), a.driver_location,
                   "heuristic", tsp_iterations, ortools_available)

(* C12: when the solver path is requested and the backend is absent, the   *)
(* caller gets the heuristic route under an algorithm identifier that is   *)
(* neither the one of a plain heuristic run nor the one of a solver run    *)
C12_SolverFallbackTagged ==
    (route_args.called /\ route_args.algorithm = "vrp" /\ ~ortools_available) =>
        /\ StopKeys(route) = StopKeys([out |-> PlainHeuristicRun(route_args)])
        /\ route.out.optimization_algorithm
              # PlainHeuristicRun(route_args).optimization_algorithm
        /\ route.out.optimization_algorithm # "ortools"

(* ----------------------- properties: solver, routes -------------------- *)
(* the orders with a stop in the routes of a result *)
VrpRoutedOrders(r) ==
    UNION {{r.out[v].stops[k].order_id : k \in 1..Len(r.out[v].stops)} :
              v \in 1..Len(r.out)} \ {NoOrder}
(* vehicle v's route serves order o: its pickup, and later its delivery *)
ServesInOrder(stops, o) ==
    \E i, j \in 1..Len(stops) :
        /\ i < j
        /\ stops[i].order_id = o /\ stops[i].stop_type = "pickup"
        /\ stops[j].order_id = o /\ stops[j].stop_type = "delivery"

(* C13: in the routes solve_vrp returns, from the solver or from the       *)
(* greedy fallback, the pickup and the delivery of an order the caller     *)
(* gave both stops of are in the route of one vehicle, the pickup before   *)
(* the delivery                                                            *)
C13_VrpPickupDelivery ==
    vrp_result.status = Returned =>
        \A o \in VrpRoutedOrders(vrp_result) :
            ServesInOrder(vrp_args.stops, o) \/ ServesInOrder(Reverse(vrp_args.stops), o)
            => \E v \in 1..Len(vrp_result.out) :
                ServesInOrder(vrp_result.out[v].stops, o)

(* --------------------- properties: travel time, cache ------------------ *)
(* the entries the caches and the shared store hold *)
StoredEntries ==
    {travel.local_cache[c][k] : c \in 0..MaxChain, k \in CacheKeys}
        \cup {travel.redis_store[k] : k \in CacheKeys}

(* C18: a provider's get_travel_time looks the request up first; on a hit  *)
(* it neither calculates nor writes the cache; it writes the cache only    *)
(* after a calculation that followed a miss and succeeded, so no stored    *)
(* result is a provider's fallback estimate                                *)
C18_CacheWriteDiscipline ==
    /\ \A j \in 1..Len(ProviderCalls) :
          LET c == ProviderCalls[j]
          IN /\ c.calc = "hit" => (~c.wrote /\ c.errors_after = c.errors_before)
             /\ c.wrote => (c.calc = "computed" /\ ~IsFallback(c.result.provider))
    /\ \A e \in StoredEntries : e.present => ~IsFallback(e.result.provider)

(* call a wrote the in-process cache entry that call b looks up: same      *)
(* cache, same key, and no call between them wrote it again                *)
LocalEntryOf(a, b) ==
    LET x == ProviderCalls[a]
        y == ProviderCalls[b]
    IN /\ a < b
       /\ x.wrote /\ x.local_entry.present
       /\ y.cache = x.cache
       /\ _generate_cache_key(y.request) = _generate_cache_key(x.request)
       /\ \A j \in (a + 1)..(b - 1) :
             LET z == ProviderCalls[j]
             IN (z.cache = x.cache /\ _generate_cache_key(z.request)
                                        = _generate_cache_key(x.request))
                => ~z.wrote

(* C19: an entry written to the in-process cache with time-to-live T is    *)
(* served only before write time + T; a lookup at or after that instant    *)
(* misses, the entry leaves the map and get_travel_time calculates again   *)
C19_LocalCacheExpiry ==
    \A a, b \in 1..Len(ProviderCalls) :
        LocalEntryOf(a, b) =>
            LET x == ProviderCalls[a]
                y == ProviderCalls[b]
            IN /\ x.local_entry.expiry = x.at + travel.default_ttl
               /\ y.at < x.local_entry.expiry =>
                     /\ y.calc = "hit"
                     /\ y.result.duration_seconds = x.result.duration_seconds
               /\ y.at >= x.local_entry.expiry =>
                     /\ y.calc # "hit"
                     /\ ~y.result.cached
                     /\ (y.local_entry.present => (y.wrote /\ y.local_entry.expiry > y.at))

(* a lookup at the very instant the entry expires, answered by a new       *)
(* calculation                                                             *)
C19_Witness ==
    \E a, b \in 1..Len(ProviderCalls) :
        /\ LocalEntryOf(a, b)
        /\ ProviderCalls[b].at = ProviderCalls[a].local_entry.expiry
        /\ ProviderCalls[b].calc = "computed"
        /\ ProviderCalls[b].wrote

(* a lookup after the entry expired whose new calculation raised: the      *)
(* entry is gone                                                           *)
C19_WitnessRemoved ==
    \E a, b \in 1..Len(ProviderCalls) :
        /\ LocalEntryOf(a, b)
        /\ ProviderCalls[b].at >= ProviderCalls[a].local_entry.expiry
        /\ ProviderCalls[b].calc = "raised"
        /\ ~ProviderCalls[b].local_entry.present

(* ---------------------- properties: travel time, lock ------------------ *)
(* C20: with handlers calling get_travel_time concurrently, the cache's    *)
(* map is read, written and pruned only by the handler holding the cache's *)
(* lock, at most one handler is inside the lock, and no handler holds the  *)
(* lock while a network call is in progress, to a provider API or to the   *)
(* shared store                                                            *)
C20_LockDiscipline ==
    /\ \A h \in Handlers :
          handlers[h].pc \in {"get_local", "set_local"} => cache_lock = h
    /\ Cardinality({h \in Handlers :
                       handlers[h].pc \in {"get_redis", "get_local",
                                           "set_redis", "set_local"}}) <= 1
    /\ \A h \in Handlers :
          handlers[h].pc \in {"get_redis", "set_redis", "calculate"} => cache_lock # h

(* ---------------------- properties: greedy fallback -------------------- *)
(* the last solve_vrp call was answered by _fallback_solver *)
FallbackRun ==
    /\ vrp_args.called
    /\ vrp_args.backend # "solution"
    /\ vrp_result.status = Returned
(* where every vehicle of the fallback starts *)
FallbackDepot(stops) ==
    LET depots == SelectSeq(stops, IsDepot)
    IN IF depots # <<>> THEN depots[1] ELSE stops[1]
(* pickups minus deliveries among the first k stops of a route *)
OpenPickups(stops, k) ==
    Cardinality({i \in 1..k : stops[i].stop_type = "pickup"})
        - Cardinality({i \in 1..k : stops[i].stop_type = "delivery"})
(* the ids of the stops still unserved before stop k of route v is chosen *)
RemainingBefore(v, k) ==
    {vrp_args.stops[i].id : i \in {j \in 1..Len(vrp_args.stops) :
                                      NotDepot(vrp_args.stops[j])}}
      \ (UNION {{vrp_result.out[u].stops[i].stop_id :
                     i \in 1..Len(vrp_result.out[u].stops)} : u \in 1..(v - 1)}
           \cup {vrp_result.out[v].stops[i].stop_id : i \in 1..(k - 1)})
(* the vehicle a route of the result belongs to *)
VehicleOf(v) ==
    CHOOSE x \in Range(vrp_args.vehicles) : x.id = vrp_result.out[v].vehicle_id

(* C21: in a route of the greedy fallback the pickups minus the deliveries *)
(* made so far never exceed the capacity of the vehicle, and every stop    *)
(* is, among the stops still unserved that keep this bound, one nearest to *)
(* the place the vehicle is at                                             *)
C21_GreedyCapacityNearest ==
    FallbackRun =>
        \A v \in 1..Len(vrp_result.out) :
            LET stops == vrp_result.out[v].stops
                vehicle == VehicleOf(v)
                at(k) == IF k = 1 THEN FallbackDepot(vrp_args.stops).location
                         ELSE stops[k - 1].location
            IN \A k \in 1..Len(stops) :
                  /\ OpenPickups(stops, k) <= vehicle.capacity
                  /\ \A r \in Range(vrp_args.stops) :
                        /\ r.id \in RemainingBefore(v, k)
                        /\ OpenPickups(stops, k - 1) + capacity_change(r)
                               <= vehicle.capacity
                        => distance_to(at(k), stops[k].location)
                               <= distance_to(at(k), r.location)

(* a fallback route of three stops or more, one of them farther from the   *)
(* depot than a stop served after it                                       *)
C21_Witness ==
    /\ FallbackRun
    /\ \E v \in 1..Len(vrp_result.out) :
          /\ Len(vrp_result.out[v].stops) >= 3
          /\ Cardinality(RemainingBefore(v, 1)) >= 4
          /\ \E k \in 1..Len(vrp_result.out[v].stops) :
                OpenPickups(vrp_result.out[v].stops, k) = VehicleOf(v).capacity

(* the order ids among the stops of the last solve_vrp call *)
VrpInputOrders ==
    {vrp_args.stops[i].order_id : i \in 1..Len(vrp_args.stops)} \ {NoOrder}
(* the call has the shape _optimize_with_ortools gives it: a depot first,  *)
(* the pickup and the delivery of every order, one vehicle whose capacity  *)
(* is the number of orders                                                 *)
RouteEndpointShape ==
    /\ Len(vrp_args.vehicles) = 1
    /\ vrp_args.vehicles[1].capacity = Cardinality(VrpInputOrders)
    /\ vrp_args.stops # <<>>
    /\ IsDepot(vrp_args.stops[1])
    /\ \A o \in VrpInputOrders : ServesInOrder(vrp_args.stops, o)

(* C28: with one vehicle whose capacity is the number of orders, the route *)
(* of the greedy fallback holds every pickup stop and every delivery stop  *)
(* of the input                                                            *)
C28_FallbackServesAll ==
    FallbackRun /\ RouteEndpointShape /\ VrpInputOrders # {} =>
        /\ Len(vrp_result.out) = 1
        /\ \A i \in 1..Len(vrp_args.stops) :
              NotDepot(vrp_args.stops[i]) =>
                  \E k \in 1..Len(vrp_result.out[1].stops) :
                      vrp_result.out[1].stops[k].stop_id = vrp_args.stops[i].id

(* -------------------------- properties: tours -------------------------- *)
(* the length of a tour, every leg of it counted *)
TourLength(tour, distance_matrix) ==
    SumSeq([i \in 1..(Len(tour) - 1) |-> distance_matrix[tour[i]][tour[i + 1]]])

(* C22: the tour of nearest_neighbor_tsp over n >= 2 points has n + 1      *)
(* entries, starts and ends at the start index, visits every other index   *)
(* once, and every step goes to an index not yet visited that is nearest   *)
(* to the current one                                                      *)
C22_NearestNeighborTour ==
    tour_call.op = "nearest_neighbor_tsp" =>
        LET n == tour_input.n
            tour == tour_call.tour
            dm == tour_input.distance_matrix
        IN /\ Len(tour) = n + 1
           /\ tour[1] = tour_call.start_index
           /\ tour[n + 1] = tour_call.start_index
           /\ \A x \in 0..(n - 1) :
                 Cardinality({k \in 1..n : tour[k] = x}) = 1
           /\ \A k \in 1..(n - 1) :
                 \A y \in (0..(n - 1)) \ {tour[i] : i \in 1..k} :
                     dm[tour[k]][tour[k + 1]] <= dm[tour[k]][y]

(* a tour over four points whose second step passes by a lower index that  *)
(* is farther away                                                         *)
C22_Witness ==
    /\ tour_call.op = "nearest_neighbor_tsp"
    /\ tour_input.n = 4
    /\ tour_call.start_index # 0
    /\ \E k \in 1..3 :
          \E y \in (0..3) \ {tour_call.tour[i] : i \in 1..k} :
              /\ y < tour_call.tour[k + 1]
              /\ tour_input.distance_matrix[tour_call.tour[k]][y]
                    > tour_input.distance_matrix[tour_call.tour[k]][tour_call.tour[k + 1]]

(* C23: two_opt_improvement makes at most tsp_iterations passes and stops  *)
(* before that only after a pass without an improving swap; its tour       *)
(* starts and ends as the input does, holds the interior of the input in   *)
(* some order, is not longer than the input, and the distance returned is  *)
(* the length of the tour returned                                         *)
C23_TwoOptBounded ==
    tour_call.op = "two_opt_improvement" =>
        LET tin == tour_call.tour_in
            tour == tour_call.tour
            dm == tour_input.distance_matrix
            len == Len(tin)
        IN /\ tour_call.iterations <= tsp_iterations
           /\ tour_call.iterations < tsp_iterations => ~tour_call.improved
           /\ Len(tour) = len
           /\ tour[1] = tin[1] /\ tour[len] = tin[len]
           /\ \A x \in 0..(tour_input.n - 1) :
                 Cardinality({k \in 2..(len - 1) : tour[k] = x})
                    = Cardinality({k \in 2..(len - 1) : tin[k] = x})
           /\ TourLength(tour, dm) <= TourLength(tin, dm)
           /\ tour_call.distance = TourLength(tour, dm)

(* a run cut short by the bound while its pass still improved the tour *)
C23_Witness ==
    /\ tour_call.op = "two_opt_improvement"
    /\ tour_call.iterations = tsp_iterations
    /\ tour_call.improved
    /\ tour_call.tour # tour_call.tour_in
    /\ TourLength(tour_call.tour, tour_input.distance_matrix)
          < TourLength(tour_call.tour_in, tour_input.distance_matrix)

(* a run that ended on a pass without an improving swap, after one that    *)
(* had improved the tour                                                   *)
C23_WitnessEarly ==
    /\ tour_call.op = "two_opt_improvement"
    /\ tour_call.iterations >= 2
    /\ tour_call.iterations < tsp_iterations
    /\ ~tour_call.improved
    /\ tour_call.tour # tour_call.tour_in

(* the places of the stops of one type in a list of stops, in list order *)
StopsOfType(stops, ty) ==
    LET Is(st) == st.stop_type = ty
        Key(st) == <<st.order_id, st.stop_type>>
        sel == SelectSeq(stops, Is)
    IN [i \in 1..Len(sel) |-> Key(sel[i])]

(* C24: enforce_pickup_before_delivery returns the stops it was given,     *)
(* every pickup before every delivery, the pickups in the order they came  *)
(* in and the deliveries too, numbered 0..n-1                              *)
C24_PickupsThenDeliveries ==
    tour_call.op = "enforce_pickup_before_delivery" =>
        LET sin == tour_input.stops
            out == tour_call.stops
            pickups == StopsOfType(sin, "pickup")
            deliveries == StopsOfType(sin, "delivery")
        IN /\ Len(out) = Len(sin)
           /\ [i \in 1..Len(out) |-> <<out[i].order_id, out[i].stop_type>>]
                 = pickups \o deliveries
           /\ \A i \in 1..Len(out) :
                 /\ out[i].sequence = i - 1
                 /\ \E j \in 1..Len(sin) :
                       out[i] = [sin[j] EXCEPT !.sequence = i - 1]

(* a list in which a delivery came before two pickups and between two      *)
(* deliveries                                                              *)
C24_Witness ==
    /\ tour_call.op = "enforce_pickup_before_delivery"
    /\ Len(tour_input.stops) = 4
    /\ tour_input.stops[1].stop_type = "delivery"
    /\ tour_input.stops[2].stop_type = "pickup"
    /\ tour_input.stops[3].stop_type = "delivery"
    /\ tour_input.stops[4].stop_type = "pickup"
    /\ tour_call.stops[1].order_id = tour_input.stops[2].order_id

(* the length, in the units of total_distance_km, of the path from point 0 *)
(* of the last heuristic run (the driver, or the centre of the batch)      *)
(* through the stops of its route in their order, with no leg back         *)
OpenPathLength ==
    LET batch == Batch(route_args.batch_orders, 0, NoTime, now)
        start == IF route_args.driver_location # NoDriver
                 THEN <<route_args.driver_location[1],
                        route_args.driver_location[2], 1>>
                 ELSE batch.center
        points == <<start>>
                  \o [i \in 1..Len(RouteStops) |->
                         <<RouteStops[i].point[1], RouteStops[i].point[2], 1>>]
        dm == create_distance_matrix(points)
    IN SumSeq([k \in 1..Len(RouteStops) |-> dm[k - 1][k]])

(* C29: the total_distance_km of a heuristic route is the sum of the legs  *)
(* of the path from point 0 through the returned stops in their final      *)
(* order, without a leg back to the start                                  *)
C29_OpenPathDistance ==
    route_args.called /\ route.status = Returned =>
        route.out.total_distance_km[1] = OpenPathLength

(* ------------------ properties: membership of batches ------------------ *)
(* the places in the caller's list of the orders left after the            *)
(* time-window filter and the corridor filter, or of every time-eligible   *)
(* order when the corridor filter keeps none                               *)
PassedFilters(a) ==
    LET near == {i \in TimeEligible(a) :
                    ~FarFromCorridor(a.orders[i], a.max_highway_deviation_km)}
    IN IF near = {} THEN TimeEligible(a) ELSE near
(* the (batch, place) pairs at which a result holds the order with this id *)
PlacesOf(b, id) ==
    UNION {{<<i, k>> : k \in {m \in 1..Len(b.out[i].orders) :
                                 b.out[i].orders[m].id = id}} :
              i \in 1..Len(b.out)}

C26_EveryOrderBatchedOnce ==
    batch_args.called =>
        \A i \in PassedFilters(batch_args) :
            Cardinality(PlacesOf(batches, batch_args.orders[i].id)) = 1

(* the cluster of the last call that holds the order with this id was left *)
(* out: its centroid is beyond the limit and another cluster's is not      *)
InRejectedCluster(id) ==
    \E c \in 1..Len(batch_steps.clusters) :
        /\ \E k \in 1..Len(batch_steps.clusters[c]) :
              batch_steps.clusters[c][k].id = id
        /\ ~CentroidWithin(batch_steps.clusters[c],
                           batch_args.max_highway_deviation_km)
        /\ \E d \in 1..Len(batch_steps.clusters) :
              CentroidWithin(batch_steps.clusters[d],
                             batch_args.max_highway_deviation_km)

(* C26: create_batches raises when max_batch_size is 1 and more than one   *)
(* order passed the filters; otherwise it returns, no order is in two      *)
(* batches, only orders that passed the filters are batched, and such an   *)
(* order is in a batch unless its cluster was left out by the check of the *)
(* cluster centroids                                                       *)
C26_OrdersBatchedOnce ==
    batch_args.called =>
        LET kept == PassedFilters(batch_args)
        IN IF max_batch_size = 1 /\ Cardinality(kept) > 1
           THEN batches.status = Raised
           ELSE /\ batches.status = Returned
                /\ \A i \in 1..Len(batch_args.orders) :
                      LET n == Cardinality(PlacesOf(batches, batch_args.orders[i].id))
                      IN /\ n <= 1
                         /\ n = 1 <=> /\ i \in kept
                                      /\ ~InRejectedCluster(batch_args.orders[i].id)

(* a call that returned batches and left out an order that had passed the  *)
(* filters                                                                 *)
C26_Witness ==
    /\ batch_args.called
    /\ batches.status = Returned
    /\ Len(batches.out) >= 2
    /\ \E i \in PassedFilters(batch_args) :
          /\ InRejectedCluster(batch_args.orders[i].id)
          /\ PlacesOf(batches, batch_args.orders[i].id) = {}

(* a call that split a cluster larger than max_batch_size and kept every   *)
(* order                                                                   *)
C26_WitnessSplit ==
    /\ batch_args.called
    /\ batches.status = Returned
    /\ \E c \in 1..Len(batch_steps.valid_clusters) :
          Len(batch_steps.valid_clusters[c]) > max_batch_size
    /\ \A i \in PassedFilters(batch_args) :
          Cardinality(PlacesOf(batches, batch_args.orders[i].id)) = 1

(* ------------------- properties: providers on one cache ---------------- *)
(* the providers were built by create_travel_time_manager: all of them on  *)
(* one cache                                                               *)
SharedCache == \A i \in 1..Len(providers) : providers[i].cache = 1

(* C27: in a manager whose providers share one cache, when a provider      *)
(* before the last gave a fallback result for a request that was not in    *)
(* the cache, the last provider computes a result of its own: the caller   *)
(* does not get the earlier provider's fallback estimate, and gets         *)
(* cached = false                                                          *)
C27_FinalProviderComputes ==
    SharedCache =>
        \A k \in ManagerCalls :
            LET c == tt_history[k]
                n == Len(providers)
            IN \A j \in 1..(Len(c.log) - 1) :
                  (/\ c.log[j].provider < n
                   /\ c.log[1].calc # "hit"
                   /\ c.log[j].status = Returned
                   /\ IsFallback(c.log[j].result.provider)
                   /\ c.status = Returned
                   /\ c.returned_by = n)
                  => /\ c.result.provider # c.log[j].result.provider
                     /\ ~c.result.cached
                     /\ c.log[Len(c.log)].calc # "hit"

(* -------------------------- properties: escrow ------------------------- *)
(* the status changes of an escrow the state machine allows *)
EscrowTransitions ==
    {<<PENDING, HELD>>, <<HELD, RELEASED>>, <<HELD, DISPUTED>>, <<HELD, REFUNDED>>,
     <<DISPUTED, REFUNDED>>}
(* the status a call of this name may be made in *)
AllowedIn(op) ==
    IF op = "hold_funds" THEN {PENDING}
    ELSE IF op = "refund_funds" THEN {HELD, DISPUTED}
    ELSE {HELD}

(* C30: a hold, release, dispute or refund call changes the status of an   *)
(* escrow only along PENDING->HELD, HELD->RELEASED, HELD->DISPUTED,        *)
(* HELD->REFUNDED or DISPUTED->REFUNDED, and of no other escrow than its   *)
(* own; RELEASED and REFUNDED are never left; a call made in a status that *)
(* does not allow it, or whose payment processor step fails, leaves the    *)
(* status and the timestamps of every escrow as they were                  *)
C30_EscrowTransitions ==
    escrow_call.op \notin {"none", "create_escrow"} =>
        LET before == escrow_call.before
            id == escrow_call.escrow_id
        IN /\ Len(escrows) = Len(before)
           /\ \A i \in 1..Len(escrows) :
                 /\ escrows[i].status # before[i].status =>
                       /\ i = id
                       /\ <<before[i].status, escrows[i].status>> \in EscrowTransitions
                 /\ before[i].status \in {RELEASED, REFUNDED} =>
                       escrows[i] = before[i]
           /\ (\/ escrow_call.outcome # "success"
               \/ id \notin 1..Len(before)
               \/ before[id].status \notin AllowedIn(escrow_call.op))
              => escrows = before

(* a refund of a disputed escrow went through after the clock had moved *)
C30_Witness ==
    /\ escrow_call.op = "refund_funds"
    /\ escrow_call.outcome = "success"
    /\ escrows[escrow_call.escrow_id].status = REFUNDED
    /\ escrow_call.before[escrow_call.escrow_id].status = DISPUTED
    /\ escrows[escrow_call.escrow_id].refunded_at
          > escrows[escrow_call.escrow_id].held_at

(* a release the payment processor refused: the escrow stays held *)
C30_WitnessFailed ==
    /\ escrow_call.op = "release_funds"
    /\ escrow_call.outcome = "failed"
    /\ escrows[escrow_call.escrow_id].status = HELD

(* a call refused because of the status of the escrow *)
C30_WitnessRaised ==
    /\ escrow_call.op = "dispute_funds"
    /\ escrow_call.outcome = "raised"
    /\ escrow_call.escrow_id \in 1..Len(escrows)
    /\ escrows[escrow_call.escrow_id].status = RELEASED

====
